---- MODULE Spec2Model ----
(***************************************************************************)
(* Mood taxonomy lookups and multi-mood merge (src/config/mood_mappings.py)*)
(* and the recommendation fan-out of MoodMatchAgent.process_messages       *)
(* (src/agents/moodmatch_agent.py).                                        *)
(*                                                                         *)
(* A Python str is a sequence of one-character strings, so that lower(),   *)
(* strip() and difflib's matching are computed character by character.     *)
(* A Python dict is a function on its set of keys; {} is the function on   *)
(* the empty set.                                                          *)
(***************************************************************************)
EXTENDS Integers, Sequences, FiniteSets, TLC

\* ------------------------------------------------------------------------
\* Bounds of the model
\* ------------------------------------------------------------------------
\* number of labels of LabelPool offered to the single-label lookups
NumLabels == 15
\* number of labels of LabelPool offered to merge_mood_mappings
NumMergeLabels == 9
\* longest list of labels handed to merge_mood_mappings
MaxMoods == 3
\* number of labels of LabelPool a caller that mutates returned values uses
NumAliasLabels == 3
\* longest list of labels such a caller hands to merge_mood_mappings
MaxAliasMoods == 2
\* number of times such a caller mutates a returned value
MaxMutations == 1
\* number of process_messages calls in flight on one agent
MaxCalls == 1
\* number of process_messages calls of a conversation
MaxConversationCalls == 2
\* longest list of messages handed to batch_analyze_moods
MaxBatch == 2
\* number of labels of MoodPool offered as the primary mood of a MoodAnalysis
NumMoods == 12
\* number of labels of MoodPool offered as secondary moods
NumSecondaryMoods == 4
\* longest list of secondary moods
MaxSecondary == 2

\* ------------------------------------------------------------------------
\* Python values
\* ------------------------------------------------------------------------
None == [None |-> TRUE]
EmptyDict == [f \in {} |-> None]
Raised(exc) == [raised |-> exc]
IsRaised(v) == DOMAIN v = {"raised"}
Truthy(v) == v # None /\ v # EmptyDict /\ v # <<>>
Or(a, b) == IF Truthy(a) THEN a ELSE b
Get(d, key, default) == IF key \in DOMAIN d THEN d[key] ELSE default

Min(a, b) == IF a <= b THEN a ELSE b
Max(a, b) == IF a >= b THEN a ELSE b
SetMax(S) == CHOOSE x \in S : \A y \in S : x >= y
SetMin(S) == CHOOSE x \in S : \A y \in S : x <= y

\* ------------------------------------------------------------------------
\* str: characters, lower(), strip(), comparison
\* ------------------------------------------------------------------------
UPPERCASE == <<"A","B","C","D","E","F","G","H","I","J","K","L","M",
               "N","O","P","Q","R","S","T","U","V","W","X","Y","Z">>
LOWERCASE == <<"a","b","c","d","e","f","g","h","i","j","k","l","m",
               "n","o","p","q","r","s","t","u","v","w","x","y","z">>
WHITESPACE == {" ", "\t", "\n"}
\* code point order of the characters the model spells: whitespace < A..Z < _ < a..z
CODEPOINTS == <<"\t", "\n", " ">> \o UPPERCASE \o <<"_">> \o LOWERCASE
ord(c) == CHOOSE i \in 1..Len(CODEPOINTS) : CODEPOINTS[i] = c

lower_char(c) ==
  IF \E i \in 1..26 : UPPERCASE[i] = c
    THEN LOWERCASE[CHOOSE i \in 1..26 : UPPERCASE[i] = c]
    ELSE c
\* str.lower() that leaves every character as it is
lower_identity(s) == s

lower(s) == [i \in 1..Len(s) |-> lower_char(s[i])]

strip(s) ==
  LET inner == {i \in 1..Len(s) : s[i] \notin WHITESPACE}
  IN IF inner = {} THEN <<>> ELSE SubSeq(s, SetMin(inner), SetMax(inner))

\* s.replace(old, new) for one-character old and new
replace(s, old, new) == [i \in 1..Len(s) |-> IF s[i] = old THEN new ELSE s[i]]

\* s > t in Python's str ordering
RECURSIVE str_gt(_, _)
str_gt(s, t) ==
  IF s = <<>> THEN FALSE
  ELSE IF t = <<>> THEN TRUE
  ELSE IF s[1] # t[1] THEN ord(s[1]) > ord(t[1])
  ELSE str_gt(Tail(s), Tail(t))

\* ------------------------------------------------------------------------
\* list helpers
\* ------------------------------------------------------------------------
\* lst * n
RECURSIVE Repeat(_, _)
Repeat(lst, n) == IF n <= 0 THEN <<>> ELSE lst \o Repeat(lst, n - 1)

\* lst[:n]
Take(lst, n) == SubSeq(lst, 1, Min(Len(lst), n))

Items(lst) == {lst[i] : i \in 1..Len(lst)}

\* list(dict.fromkeys(lst)): the first occurrence of each item, in order
fromkeys(lst) ==
  LET firsts == {i \in 1..Len(lst) : \A j \in 1..(i - 1) : lst[j] # lst[i]}
      nth(n) == CHOOSE i \in firsts : Cardinality({j \in firsts : j <= i}) = n
  IN [n \in 1..Cardinality(firsts) |-> lst[nth(n)]]

RECURSIVE Sum(_)
Sum(lst) == IF lst = <<>> THEN 0 ELSE lst[1] + Sum(Tail(lst))

\* every list over S of length at most n
RECURSIVE ListsUpTo(_, _)
ListsUpTo(S, n) ==
  IF n = 0 THEN {<<>>}
  ELSE LET shorter == ListsUpTo(S, n - 1)
       IN shorter \cup {Append(l, x) : l \in {m \in shorter : Len(m) = n - 1}, x \in S}

\* ------------------------------------------------------------------------
\* difflib.SequenceMatcher (no junk: the strings are far shorter than the
\* 200 characters at which autojunk starts)
\* ------------------------------------------------------------------------
\* length of the common run of a[i:ahi] and b[j:bhi] (0-based, as in difflib)
RECURSIVE run_length(_, _, _, _, _, _)
run_length(a, b, i, j, ahi, bhi) ==
  IF i < ahi /\ j < bhi /\ a[i + 1] = b[j + 1]
    THEN 1 + run_length(a, b, i + 1, j + 1, ahi, bhi)
    ELSE 0

\* of the runs <<i, j, k>> of length k: the one starting earliest in a, and
\* of those the one starting earliest in b
earliest_run(runs, k) ==
  LET i == SetMin({r[1] : r \in {q \in runs : q[3] = k}})
  IN <<i, SetMin({r[2] : r \in {q \in runs : q[3] = k /\ q[1] = i}}), k>>

longest_run(runs, alo, blo) ==
  LET k == IF runs = {} THEN 0 ELSE SetMax({r[3] : r \in runs})
  IN IF k = 0 THEN <<alo, blo, 0>> ELSE earliest_run(runs, k)

\* the longest matching block of a[alo:ahi] and b[blo:bhi]
find_longest_match(a, b, alo, ahi, blo, bhi) ==
  longest_run({<<ai, bj, run_length(a, b, ai, bj, ahi, bhi)>> :
                 ai \in alo..(ahi - 1), bj \in blo..(bhi - 1)}, alo, blo)

\* sum of the sizes of get_matching_blocks(): the longest block m = <<i, j, k>>
\* and, recursively, the blocks to its left and to its right
RECURSIVE matching_size(_, _, _, _, _, _)
RECURSIVE blocks_size(_, _, _, _, _, _, _)
blocks_size(a, b, alo, ahi, blo, bhi, m) ==
  IF m[3] = 0 THEN 0
  ELSE m[3]
       + (IF alo < m[1] /\ blo < m[2]
            THEN matching_size(a, b, alo, m[1], blo, m[2]) ELSE 0)
       + (IF m[1] + m[3] < ahi /\ m[2] + m[3] < bhi
            THEN matching_size(a, b, m[1] + m[3], ahi, m[2] + m[3], bhi) ELSE 0)

matching_size(a, b, alo, ahi, blo, bhi) ==
  blocks_size(a, b, alo, ahi, blo, bhi, find_longest_match(a, b, alo, ahi, blo, bhi))

\* the labels offered as inputs, in the order the bounds take them
LabelPool ==
  <<"sad", "excited", "happy", "energetic", "heartbroken", "lonely",
    "hap", "totally_unrecognized_xyz", "bored", " HaPpY  ", "hapy", "xyzabc",
    "", "unknown_mood_zzz", "stresed", "anxious", "SAD\n", "calm",
    "relaxed">>

\* the characters of every string the model spells out
CHARS ==
     "happy" :> <<"h","a","p","p","y">>
  @@ "excited" :> <<"e","x","c","i","t","e","d">>
  @@ "grateful" :> <<"g","r","a","t","e","f","u","l">>
  @@ "peaceful" :> <<"p","e","a","c","e","f","u","l">>
  @@ "confident" :> <<"c","o","n","f","i","d","e","n","t">>
  @@ "inspired" :> <<"i","n","s","p","i","r","e","d">>
  @@ "playful" :> <<"p","l","a","y","f","u","l">>
  @@ "content" :> <<"c","o","n","t","e","n","t">>
  @@ "loving" :> <<"l","o","v","i","n","g">>
  @@ "proud" :> <<"p","r","o","u","d">>
  @@ "sad" :> <<"s","a","d">>
  @@ "anxious" :> <<"a","n","x","i","o","u","s">>
  @@ "stressed" :> <<"s","t","r","e","s","s","e","d">>
  @@ "angry" :> <<"a","n","g","r","y">>
  @@ "lonely" :> <<"l","o","n","e","l","y">>
  @@ "heartbroken" :> <<"h","e","a","r","t","b","r","o","k","e","n">>
  @@ "disappointed" :> <<"d","i","s","a","p","p","o","i","n","t","e","d">>
  @@ "guilty" :> <<"g","u","i","l","t","y">>
  @@ "jealous" :> <<"j","e","a","l","o","u","s">>
  @@ "embarrassed" :> <<"e","m","b","a","r","r","a","s","s","e","d">>
  @@ "afraid" :> <<"a","f","r","a","i","d">>
  @@ "hopeless" :> <<"h","o","p","e","l","e","s","s">>
  @@ "energetic" :> <<"e","n","e","r","g","e","t","i","c">>
  @@ "tired" :> <<"t","i","r","e","d">>
  @@ "restless" :> <<"r","e","s","t","l","e","s","s">>
  @@ "sluggish" :> <<"s","l","u","g","g","i","s","h">>
  @@ "hyper" :> <<"h","y","p","e","r">>
  @@ "burnt_out" :> <<"b","u","r","n","t","_","o","u","t">>
  @@ "mellow" :> <<"m","e","l","l","o","w">>
  @@ "drowsy" :> <<"d","r","o","w","s","y">>
  @@ "social" :> <<"s","o","c","i","a","l">>
  @@ "introverted" :> <<"i","n","t","r","o","v","e","r","t","e","d">>
  @@ "romantic" :> <<"r","o","m","a","n","t","i","c">>
  @@ "nostalgic" :> <<"n","o","s","t","a","l","g","i","c">>
  @@ "homesick" :> <<"h","o","m","e","s","i","c","k">>
  @@ "misunderstood" :> <<"m","i","s","u","n","d","e","r","s","t","o","o","d">>
  @@ "betrayed" :> <<"b","e","t","r","a","y","e","d">>
  @@ "supported" :> <<"s","u","p","p","o","r","t","e","d">>
  @@ "contemplative" :> <<"c","o","n","t","e","m","p","l","a","t","i","v","e">>
  @@ "philosophical" :> <<"p","h","i","l","o","s","o","p","h","i","c","a","l">>
  @@ "curious" :> <<"c","u","r","i","o","u","s">>
  @@ "confused" :> <<"c","o","n","f","u","s","e","d">>
  @@ "stuck" :> <<"s","t","u","c","k">>
  @@ "purposeful" :> <<"p","u","r","p","o","s","e","f","u","l">>
  @@ "empty" :> <<"e","m","p","t","y">>
  @@ "overwhelmed" :> <<"o","v","e","r","w","h","e","l","m","e","d">>
  @@ "bittersweet" :> <<"b","i","t","t","e","r","s","w","e","e","t">>
  @@ "numb" :> <<"n","u","m","b">>
  @@ "vengeful" :> <<"v","e","n","g","e","f","u","l">>
  @@ "rebellious" :> <<"r","e","b","e","l","l","i","o","u","s">>
  @@ "vulnerable" :> <<"v","u","l","n","e","r","a","b","l","e">>
  @@ "bored" :> <<"b","o","r","e","d">>
  @@ "hap" :> <<"h","a","p">>
  @@ "totally_unrecognized_xyz" :> <<"t","o","t","a","l","l","y","_","u","n","r","e","c","o","g","n","i","z","e","d","_","x","y","z">>
  @@ " HaPpY  " :> <<" ","H","a","P","p","Y"," "," ">>
  @@ "hapy" :> <<"h","a","p","y">>
  @@ "xyzabc" :> <<"x","y","z","a","b","c">>
  @@ "" :> <<>>
  @@ "unknown_mood_zzz" :> <<"u","n","k","n","o","w","n","_","m","o","o","d","_","z","z","z">>
  @@ "SAD\n" :> <<"S","A","D","\n">>
  @@ "calm" :> <<"c","a","l","m">>
  @@ "relaxed" :> <<"r","e","l","a","x","e","d">>
  @@ "\tHAPPY\n" :> <<"\t","H","A","P","P","Y","\n">>
  @@ " ExCiTeD  " :> <<" ","E","x","C","i","T","e","D"," "," ">>
  @@ "\tEXCITED\n" :> <<"\t","E","X","C","I","T","E","D","\n">>
  @@ " GrAtEfUl  " :> <<" ","G","r","A","t","E","f","U","l"," "," ">>
  @@ "\tGRATEFUL\n" :> <<"\t","G","R","A","T","E","F","U","L","\n">>
  @@ " PeAcEfUl  " :> <<" ","P","e","A","c","E","f","U","l"," "," ">>
  @@ "\tPEACEFUL\n" :> <<"\t","P","E","A","C","E","F","U","L","\n">>
  @@ " CoNfIdEnT  " :> <<" ","C","o","N","f","I","d","E","n","T"," "," ">>
  @@ "\tCONFIDENT\n" :> <<"\t","C","O","N","F","I","D","E","N","T","\n">>
  @@ " InSpIrEd  " :> <<" ","I","n","S","p","I","r","E","d"," "," ">>
  @@ "\tINSPIRED\n" :> <<"\t","I","N","S","P","I","R","E","D","\n">>
  @@ " PlAyFuL  " :> <<" ","P","l","A","y","F","u","L"," "," ">>
  @@ "\tPLAYFUL\n" :> <<"\t","P","L","A","Y","F","U","L","\n">>
  @@ " CoNtEnT  " :> <<" ","C","o","N","t","E","n","T"," "," ">>
  @@ "\tCONTENT\n" :> <<"\t","C","O","N","T","E","N","T","\n">>
  @@ " LoViNg  " :> <<" ","L","o","V","i","N","g"," "," ">>
  @@ "\tLOVING\n" :> <<"\t","L","O","V","I","N","G","\n">>
  @@ " PrOuD  " :> <<" ","P","r","O","u","D"," "," ">>
  @@ "\tPROUD\n" :> <<"\t","P","R","O","U","D","\n">>
  @@ " SaD  " :> <<" ","S","a","D"," "," ">>
  @@ "\tSAD\n" :> <<"\t","S","A","D","\n">>
  @@ " AnXiOuS  " :> <<" ","A","n","X","i","O","u","S"," "," ">>
  @@ "\tANXIOUS\n" :> <<"\t","A","N","X","I","O","U","S","\n">>
  @@ " StReSsEd  " :> <<" ","S","t","R","e","S","s","E","d"," "," ">>
  @@ "\tSTRESSED\n" :> <<"\t","S","T","R","E","S","S","E","D","\n">>
  @@ " AnGrY  " :> <<" ","A","n","G","r","Y"," "," ">>
  @@ "\tANGRY\n" :> <<"\t","A","N","G","R","Y","\n">>
  @@ " LoNeLy  " :> <<" ","L","o","N","e","L","y"," "," ">>
  @@ "\tLONELY\n" :> <<"\t","L","O","N","E","L","Y","\n">>
  @@ " HeArTbRoKeN  " :> <<" ","H","e","A","r","T","b","R","o","K","e","N"," "," ">>
  @@ "\tHEARTBROKEN\n" :> <<"\t","H","E","A","R","T","B","R","O","K","E","N","\n">>
  @@ " DiSaPpOiNtEd  " :> <<" ","D","i","S","a","P","p","O","i","N","t","E","d"," "," ">>
  @@ "\tDISAPPOINTED\n" :> <<"\t","D","I","S","A","P","P","O","I","N","T","E","D","\n">>
  @@ " GuIlTy  " :> <<" ","G","u","I","l","T","y"," "," ">>
  @@ "\tGUILTY\n" :> <<"\t","G","U","I","L","T","Y","\n">>
  @@ " JeAlOuS  " :> <<" ","J","e","A","l","O","u","S"," "," ">>
  @@ "\tJEALOUS\n" :> <<"\t","J","E","A","L","O","U","S","\n">>
  @@ " EmBaRrAsSeD  " :> <<" ","E","m","B","a","R","r","A","s","S","e","D"," "," ">>
  @@ "\tEMBARRASSED\n" :> <<"\t","E","M","B","A","R","R","A","S","S","E","D","\n">>
  @@ " AfRaId  " :> <<" ","A","f","R","a","I","d"," "," ">>
  @@ "\tAFRAID\n" :> <<"\t","A","F","R","A","I","D","\n">>
  @@ " HoPeLeSs  " :> <<" ","H","o","P","e","L","e","S","s"," "," ">>
  @@ "\tHOPELESS\n" :> <<"\t","H","O","P","E","L","E","S","S","\n">>
  @@ " EnErGeTiC  " :> <<" ","E","n","E","r","G","e","T","i","C"," "," ">>
  @@ "\tENERGETIC\n" :> <<"\t","E","N","E","R","G","E","T","I","C","\n">>
  @@ " TiReD  " :> <<" ","T","i","R","e","D"," "," ">>
  @@ "\tTIRED\n" :> <<"\t","T","I","R","E","D","\n">>
  @@ " ReStLeSs  " :> <<" ","R","e","S","t","L","e","S","s"," "," ">>
  @@ "\tRESTLESS\n" :> <<"\t","R","E","S","T","L","E","S","S","\n">>
  @@ " SlUgGiSh  " :> <<" ","S","l","U","g","G","i","S","h"," "," ">>
  @@ "\tSLUGGISH\n" :> <<"\t","S","L","U","G","G","I","S","H","\n">>
  @@ " HyPeR  " :> <<" ","H","y","P","e","R"," "," ">>
  @@ "\tHYPER\n" :> <<"\t","H","Y","P","E","R","\n">>
  @@ " BuRnT_OuT  " :> <<" ","B","u","R","n","T","_","O","u","T"," "," ">>
  @@ "\tBURNT_OUT\n" :> <<"\t","B","U","R","N","T","_","O","U","T","\n">>
  @@ " MeLlOw  " :> <<" ","M","e","L","l","O","w"," "," ">>
  @@ "\tMELLOW\n" :> <<"\t","M","E","L","L","O","W","\n">>
  @@ " DrOwSy  " :> <<" ","D","r","O","w","S","y"," "," ">>
  @@ "\tDROWSY\n" :> <<"\t","D","R","O","W","S","Y","\n">>
  @@ " SoCiAl  " :> <<" ","S","o","C","i","A","l"," "," ">>
  @@ "\tSOCIAL\n" :> <<"\t","S","O","C","I","A","L","\n">>
  @@ " InTrOvErTeD  " :> <<" ","I","n","T","r","O","v","E","r","T","e","D"," "," ">>
  @@ "\tINTROVERTED\n" :> <<"\t","I","N","T","R","O","V","E","R","T","E","D","\n">>
  @@ " RoMaNtIc  " :> <<" ","R","o","M","a","N","t","I","c"," "," ">>
  @@ "\tROMANTIC\n" :> <<"\t","R","O","M","A","N","T","I","C","\n">>
  @@ " NoStAlGiC  " :> <<" ","N","o","S","t","A","l","G","i","C"," "," ">>
  @@ "\tNOSTALGIC\n" :> <<"\t","N","O","S","T","A","L","G","I","C","\n">>
  @@ " HoMeSiCk  " :> <<" ","H","o","M","e","S","i","C","k"," "," ">>
  @@ "\tHOMESICK\n" :> <<"\t","H","O","M","E","S","I","C","K","\n">>
  @@ " MiSuNdErStOoD  " :> <<" ","M","i","S","u","N","d","E","r","S","t","O","o","D"," "," ">>
  @@ "\tMISUNDERSTOOD\n" :> <<"\t","M","I","S","U","N","D","E","R","S","T","O","O","D","\n">>
  @@ " BeTrAyEd  " :> <<" ","B","e","T","r","A","y","E","d"," "," ">>
  @@ "\tBETRAYED\n" :> <<"\t","B","E","T","R","A","Y","E","D","\n">>
  @@ " SuPpOrTeD  " :> <<" ","S","u","P","p","O","r","T","e","D"," "," ">>
  @@ "\tSUPPORTED\n" :> <<"\t","S","U","P","P","O","R","T","E","D","\n">>
  @@ " CoNtEmPlAtIvE  " :> <<" ","C","o","N","t","E","m","P","l","A","t","I","v","E"," "," ">>
  @@ "\tCONTEMPLATIVE\n" :> <<"\t","C","O","N","T","E","M","P","L","A","T","I","V","E","\n">>
  @@ " PhIlOsOpHiCaL  " :> <<" ","P","h","I","l","O","s","O","p","H","i","C","a","L"," "," ">>
  @@ "\tPHILOSOPHICAL\n" :> <<"\t","P","H","I","L","O","S","O","P","H","I","C","A","L","\n">>
  @@ " CuRiOuS  " :> <<" ","C","u","R","i","O","u","S"," "," ">>
  @@ "\tCURIOUS\n" :> <<"\t","C","U","R","I","O","U","S","\n">>
  @@ " CoNfUsEd  " :> <<" ","C","o","N","f","U","s","E","d"," "," ">>
  @@ "\tCONFUSED\n" :> <<"\t","C","O","N","F","U","S","E","D","\n">>
  @@ " StUcK  " :> <<" ","S","t","U","c","K"," "," ">>
  @@ "\tSTUCK\n" :> <<"\t","S","T","U","C","K","\n">>
  @@ " PuRpOsEfUl  " :> <<" ","P","u","R","p","O","s","E","f","U","l"," "," ">>
  @@ "\tPURPOSEFUL\n" :> <<"\t","P","U","R","P","O","S","E","F","U","L","\n">>
  @@ " EmPtY  " :> <<" ","E","m","P","t","Y"," "," ">>
  @@ "\tEMPTY\n" :> <<"\t","E","M","P","T","Y","\n">>
  @@ " OvErWhElMeD  " :> <<" ","O","v","E","r","W","h","E","l","M","e","D"," "," ">>
  @@ "\tOVERWHELMED\n" :> <<"\t","O","V","E","R","W","H","E","L","M","E","D","\n">>
  @@ " BiTtErSwEeT  " :> <<" ","B","i","T","t","E","r","S","w","E","e","T"," "," ">>
  @@ "\tBITTERSWEET\n" :> <<"\t","B","I","T","T","E","R","S","W","E","E","T","\n">>
  @@ " NuMb  " :> <<" ","N","u","M","b"," "," ">>
  @@ "\tNUMB\n" :> <<"\t","N","U","M","B","\n">>
  @@ " VeNgEfUl  " :> <<" ","V","e","N","g","E","f","U","l"," "," ">>
  @@ "\tVENGEFUL\n" :> <<"\t","V","E","N","G","E","F","U","L","\n">>
  @@ " ReBeLlIoUs  " :> <<" ","R","e","B","e","L","l","I","o","U","s"," "," ">>
  @@ "\tREBELLIOUS\n" :> <<"\t","R","E","B","E","L","L","I","O","U","S","\n">>
  @@ " VuLnErAbLe  " :> <<" ","V","u","L","n","E","r","A","b","L","e"," "," ">>
  @@ "\tVULNERABLE\n" :> <<"\t","V","U","L","N","E","R","A","B","L","E","\n">>
  @@ " BoReD  " :> <<" ","B","o","R","e","D"," "," ">>
  @@ "\tBORED\n" :> <<"\t","B","O","R","E","D","\n">>
  @@ "HAPPY" :> <<"H","A","P","P","Y">>
  @@ "SAD" :> <<"S","A","D">>
  @@ "Anxious" :> <<"A","n","x","i","o","u","s">>
  @@ "burnt out" :> <<"b","u","r","n","t"," ","o","u","t">>
  @@ " Burnt Out " :> <<" ","B","u","r","n","t"," ","O","u","t"," ">>
  @@ "burnt\tout" :> <<"b","u","r","n","t","\t","o","u","t">>
  @@ "Over Whelmed" :> <<"O","v","e","r"," ","W","h","e","l","m","e","d">>
  @@ "stresed" :> <<"s","t","r","e","s","e","d">>
  @@ "escape" :> <<"e","s","c","a","p","e">>
  @@ "process" :> <<"p","r","o","c","e","s","s">>
  @@ "uplift" :> <<"u","p","l","i","f","t">>
  @@ "match" :> <<"m","a","t","c","h">>
  @@ "channel" :> <<"c","h","a","n","n","e","l">>
  @@ "Escape" :> <<"E","s","c","a","p","e">>
  @@ "invalid_need" :> <<"i","n","v","a","l","i","d","_","n","e","e","d">>
  @@ "   " :> <<" "," "," ">>
  @@ " \t\n" :> <<" ","\t","\n">>
  @@ "i feel sad" :> <<"i"," ","f","e","e","l"," ","s","a","d">>
  @@ "  rough day  " :> <<" "," ","r","o","u","g","h"," ","d","a","y"," "," ">>
  @@ "cheer me up" :> <<"c","h","e","e","r"," ","m","e"," ","u","p">>

\* for every key of the taxonomy, spellings of it in another case and with
\* whitespace around it
KEY_VARIANTS ==
     "happy" :> {" HaPpY  ", "\tHAPPY\n"}
  @@ "excited" :> {" ExCiTeD  ", "\tEXCITED\n"}
  @@ "grateful" :> {" GrAtEfUl  ", "\tGRATEFUL\n"}
  @@ "peaceful" :> {" PeAcEfUl  ", "\tPEACEFUL\n"}
  @@ "confident" :> {" CoNfIdEnT  ", "\tCONFIDENT\n"}
  @@ "inspired" :> {" InSpIrEd  ", "\tINSPIRED\n"}
  @@ "playful" :> {" PlAyFuL  ", "\tPLAYFUL\n"}
  @@ "content" :> {" CoNtEnT  ", "\tCONTENT\n"}
  @@ "loving" :> {" LoViNg  ", "\tLOVING\n"}
  @@ "proud" :> {" PrOuD  ", "\tPROUD\n"}
  @@ "sad" :> {" SaD  ", "\tSAD\n"}
  @@ "anxious" :> {" AnXiOuS  ", "\tANXIOUS\n"}
  @@ "stressed" :> {" StReSsEd  ", "\tSTRESSED\n"}
  @@ "angry" :> {" AnGrY  ", "\tANGRY\n"}
  @@ "lonely" :> {" LoNeLy  ", "\tLONELY\n"}
  @@ "heartbroken" :> {" HeArTbRoKeN  ", "\tHEARTBROKEN\n"}
  @@ "disappointed" :> {" DiSaPpOiNtEd  ", "\tDISAPPOINTED\n"}
  @@ "guilty" :> {" GuIlTy  ", "\tGUILTY\n"}
  @@ "jealous" :> {" JeAlOuS  ", "\tJEALOUS\n"}
  @@ "embarrassed" :> {" EmBaRrAsSeD  ", "\tEMBARRASSED\n"}
  @@ "afraid" :> {" AfRaId  ", "\tAFRAID\n"}
  @@ "hopeless" :> {" HoPeLeSs  ", "\tHOPELESS\n"}
  @@ "energetic" :> {" EnErGeTiC  ", "\tENERGETIC\n"}
  @@ "tired" :> {" TiReD  ", "\tTIRED\n"}
  @@ "restless" :> {" ReStLeSs  ", "\tRESTLESS\n"}
  @@ "sluggish" :> {" SlUgGiSh  ", "\tSLUGGISH\n"}
  @@ "hyper" :> {" HyPeR  ", "\tHYPER\n"}
  @@ "burnt_out" :> {" BuRnT_OuT  ", "\tBURNT_OUT\n"}
  @@ "mellow" :> {" MeLlOw  ", "\tMELLOW\n"}
  @@ "drowsy" :> {" DrOwSy  ", "\tDROWSY\n"}
  @@ "social" :> {" SoCiAl  ", "\tSOCIAL\n"}
  @@ "introverted" :> {" InTrOvErTeD  ", "\tINTROVERTED\n"}
  @@ "romantic" :> {" RoMaNtIc  ", "\tROMANTIC\n"}
  @@ "nostalgic" :> {" NoStAlGiC  ", "\tNOSTALGIC\n"}
  @@ "homesick" :> {" HoMeSiCk  ", "\tHOMESICK\n"}
  @@ "misunderstood" :> {" MiSuNdErStOoD  ", "\tMISUNDERSTOOD\n"}
  @@ "betrayed" :> {" BeTrAyEd  ", "\tBETRAYED\n"}
  @@ "supported" :> {" SuPpOrTeD  ", "\tSUPPORTED\n"}
  @@ "contemplative" :> {" CoNtEmPlAtIvE  ", "\tCONTEMPLATIVE\n"}
  @@ "philosophical" :> {" PhIlOsOpHiCaL  ", "\tPHILOSOPHICAL\n"}
  @@ "curious" :> {" CuRiOuS  ", "\tCURIOUS\n"}
  @@ "confused" :> {" CoNfUsEd  ", "\tCONFUSED\n"}
  @@ "stuck" :> {" StUcK  ", "\tSTUCK\n"}
  @@ "purposeful" :> {" PuRpOsEfUl  ", "\tPURPOSEFUL\n"}
  @@ "empty" :> {" EmPtY  ", "\tEMPTY\n"}
  @@ "overwhelmed" :> {" OvErWhElMeD  ", "\tOVERWHELMED\n"}
  @@ "bittersweet" :> {" BiTtErSwEeT  ", "\tBITTERSWEET\n"}
  @@ "numb" :> {" NuMb  ", "\tNUMB\n"}
  @@ "vengeful" :> {" VeNgEfUl  ", "\tVENGEFUL\n"}
  @@ "rebellious" :> {" ReBeLlIoUs  ", "\tREBELLIOUS\n"}
  @@ "vulnerable" :> {" VuLnErAbLe  ", "\tVULNERABLE\n"}
  @@ "bored" :> {" BoReD  ", "\tBORED\n"}

\* the primary and secondary moods the mood analyzer's model hands to MoodAnalysis
MoodPool ==
  <<"HAPPY", "SAD", "Anxious", "burnt out", " Burnt Out ", "burnt\tout",
    "hapy", "xyzabc", "", "calm", "happy", "overwhelmed",
    "Over Whelmed", "stresed">>

\* the 52 valid moods of MoodAnalysis.validate_primary_mood
VALID_MOODS ==
  {"happy", "excited", "grateful", "peaceful", "confident", "inspired",
   "playful", "content", "loving", "proud", "sad", "anxious",
   "stressed", "angry", "lonely", "heartbroken", "disappointed", "guilty",
   "jealous", "embarrassed", "afraid", "hopeless", "energetic", "tired",
   "restless", "sluggish", "hyper", "burnt_out", "mellow", "drowsy",
   "social", "introverted", "romantic", "nostalgic", "homesick", "misunderstood",
   "betrayed", "supported", "contemplative", "philosophical", "curious", "confused",
   "stuck", "purposeful", "empty", "overwhelmed", "bittersweet", "numb",
   "vengeful", "rebellious", "vulnerable", "bored"}

\* ------------------------------------------------------------------------
\* The taxonomy as the module defines it (mood_mappings.py lines 29-1079)
\* ------------------------------------------------------------------------
MOOD_MAPPINGS_SRC ==
     "happy" :> [music_genres |-> <<"upbeat pop", "indie pop", "dance", "feel good", "sunshine">>,
       music_energy |-> "high",
       music_vibe |-> <<"uplifting", "cheerful", "energizing", "joyful">>,
       music_keywords |-> <<"happy", "feel good", "positive vibes", "good mood">>,
       movie_genres |-> <<"Comedy", "Romance", "Animation", "Musical">>,
       movie_tone |-> "light",
       movie_themes |-> <<"friendship", "love", "triumph", "joy">>,
       movie_keywords |-> <<"feel-good", "heartwarming", "uplifting", "fun">>,
       book_genres |-> <<"Fiction", "Romance", "Humor", "Young Adult">>,
       book_themes |-> <<"happiness", "love", "friendship", "success">>,
       book_pacing |-> "moderate",
       book_depth |-> "light",
       book_keywords |-> <<"uplifting", "heartwarming", "feel-good", "joyful">>,
       avoid_themes |-> <<"tragedy", "dark", "depressing">>,
       recommendation_strategy |-> "match"]
  @@ "excited" :> [music_genres |-> <<"upbeat pop", "dance", "electronic", "rock", "party">>,
       music_energy |-> "very_high",
       music_vibe |-> <<"energizing", "celebratory", "powerful", "fun">>,
       music_keywords |-> <<"party", "pump up", "celebration", "high energy">>,
       movie_genres |-> <<"Action", "Adventure", "Comedy", "Animation">>,
       movie_tone |-> "uplifting",
       movie_themes |-> <<"triumph", "adventure", "success", "excitement">>,
       movie_keywords |-> <<"thrilling", "exciting", "entertaining", "inspiring">>,
       book_genres |-> <<"Adventure", "Thriller", "Biography", "Self-Help">>,
       book_themes |-> <<"achievement", "journey", "success", "ambition">>,
       book_pacing |-> "fast",
       book_depth |-> "light",
       book_keywords |-> <<"motivating", "success stories", "adventure", "exciting">>,
       avoid_themes |-> <<"sad", "slow", "depressing", "boring">>,
       recommendation_strategy |-> "match"]
  @@ "grateful" :> [music_genres |-> <<"acoustic", "folk", "indie", "soul", "gospel">>,
       music_energy |-> "medium",
       music_vibe |-> <<"warm", "heartfelt", "uplifting", "peaceful">>,
       music_keywords |-> <<"grateful", "thankful", "blessings", "appreciation">>,
       movie_genres |-> <<"Drama", "Biography", "Documentary", "Family">>,
       movie_tone |-> "uplifting",
       movie_themes |-> <<"kindness", "family", "community", "appreciation">>,
       movie_keywords |-> <<"heartwarming", "inspiring", "meaningful", "touching">>,
       book_genres |-> <<"Memoir", "Self-Help", "Philosophy", "Biography">>,
       book_themes |-> <<"gratitude", "appreciation", "kindness", "perspective">>,
       book_pacing |-> "contemplative",
       book_depth |-> "medium",
       book_keywords |-> <<"gratitude", "thankfulness", "appreciation", "mindfulness">>,
       avoid_themes |-> <<"cynical", "negative", "ungrateful">>,
       recommendation_strategy |-> "match"]
  @@ "peaceful" :> [music_genres |-> <<"ambient", "classical", "acoustic", "nature sounds", "meditation">>,
       music_energy |-> "low",
       music_vibe |-> <<"calming", "serene", "gentle", "tranquil">>,
       music_keywords |-> <<"peaceful", "calm", "relaxing", "meditation">>,
       movie_genres |-> <<"Documentary", "Drama", "Animation", "Romance">>,
       movie_tone |-> "balanced",
       movie_themes |-> <<"nature", "harmony", "simplicity", "tranquility">>,
       movie_keywords |-> <<"peaceful", "serene", "contemplative", "gentle">>,
       book_genres |-> <<"Poetry", "Philosophy", "Nature", "Fiction">>,
       book_themes |-> <<"peace", "mindfulness", "nature", "harmony">>,
       book_pacing |-> "slow",
       book_depth |-> "medium",
       book_keywords |-> <<"peaceful", "calm", "serene", "mindfulness">>,
       avoid_themes |-> <<"violent", "chaotic", "intense", "stressful">>,
       recommendation_strategy |-> "match"]
  @@ "confident" :> [music_genres |-> <<"hip hop", "rock", "electronic", "pop", "power">>,
       music_energy |-> "high",
       music_vibe |-> <<"powerful", "empowering", "bold", "strong">>,
       music_keywords |-> <<"confidence", "powerful", "boss", "unstoppable">>,
       movie_genres |-> <<"Action", "Biography", "Drama", "Sport">>,
       movie_tone |-> "uplifting",
       movie_themes |-> <<"empowerment", "success", "overcoming", "strength">>,
       movie_keywords |-> <<"empowering", "inspiring", "triumphant", "bold">>,
       book_genres |-> <<"Self-Help", "Biography", "Business", "Psychology">>,
       book_themes |-> <<"confidence", "empowerment", "success", "leadership">>,
       book_pacing |-> "moderate",
       book_depth |-> "medium",
       book_keywords |-> <<"confidence", "empowerment", "success", "strength">>,
       avoid_themes |-> <<"defeat", "weakness", "failure">>,
       recommendation_strategy |-> "match"]
  @@ "inspired" :> [music_genres |-> <<"classical", "epic", "orchestral", "indie folk", "cinematic">>,
       music_energy |-> "medium",
       music_vibe |-> <<"inspiring", "uplifting", "powerful", "creative">>,
       music_keywords |-> <<"inspiring", "motivational", "creative", "epic">>,
       movie_genres |-> <<"Biography", "Drama", "Documentary", "Adventure">>,
       movie_tone |-> "uplifting",
       movie_themes |-> <<"achievement", "creativity", "innovation", "transformation">>,
       movie_keywords |-> <<"inspiring", "motivational", "transformative", "powerful">>,
       book_genres |-> <<"Biography", "Self-Help", "Philosophy", "History">>,
       book_themes |-> <<"inspiration", "creativity", "innovation", "achievement">>,
       book_pacing |-> "moderate",
       book_depth |-> "deep",
       book_keywords |-> <<"inspiring", "motivational", "creative", "wisdom">>,
       avoid_themes |-> <<"pessimistic", "defeat", "cynical">>,
       recommendation_strategy |-> "match"]
  @@ "playful" :> [music_genres |-> <<"indie pop", "funk", "dance", "quirky", "upbeat">>,
       music_energy |-> "high",
       music_vibe |-> <<"fun", "lighthearted", "cheerful", "carefree">>,
       music_keywords |-> <<"fun", "playful", "quirky", "lighthearted">>,
       movie_genres |-> <<"Comedy", "Animation", "Adventure", "Family">>,
       movie_tone |-> "light",
       movie_themes |-> <<"fun", "adventure", "humor", "whimsy">>,
       movie_keywords |-> <<"funny", "lighthearted", "entertaining", "playful">>,
       book_genres |-> <<"Humor", "Fiction", "Young Adult", "Graphic Novels">>,
       book_themes |-> <<"fun", "adventure", "humor", "whimsy">>,
       book_pacing |-> "fast",
       book_depth |-> "light",
       book_keywords |-> <<"funny", "lighthearted", "entertaining", "fun">>,
       avoid_themes |-> <<"serious", "heavy", "dark">>,
       recommendation_strategy |-> "match"]
  @@ "content" :> [music_genres |-> <<"acoustic", "indie folk", "chill", "soft rock", "jazz">>,
       music_energy |-> "medium",
       music_vibe |-> <<"comfortable", "warm", "relaxed", "satisfied">>,
       music_keywords |-> <<"content", "relaxed", "comfortable", "chill">>,
       movie_genres |-> <<"Drama", "Romance", "Comedy", "Documentary">>,
       movie_tone |-> "balanced",
       movie_themes |-> <<"satisfaction", "comfort", "simplicity", "harmony">>,
       movie_keywords |-> <<"comfortable", "satisfying", "pleasant", "easy">>,
       book_genres |-> <<"Fiction", "Memoir", "Poetry", "Essays">>,
       book_themes |-> <<"contentment", "simplicity", "appreciation", "peace">>,
       book_pacing |-> "slow",
       book_depth |-> "medium",
       book_keywords |-> <<"comfortable", "satisfying", "peaceful", "reflective">>,
       avoid_themes |-> <<"chaotic", "intense", "disturbing">>,
       recommendation_strategy |-> "match"]
  @@ "loving" :> [music_genres |-> <<"r&b", "soul", "romantic", "acoustic", "indie">>,
       music_energy |-> "low",
       music_vibe |-> <<"romantic", "warm", "tender", "affectionate">>,
       music_keywords |-> <<"love", "romantic", "intimate", "tender">>,
       movie_genres |-> <<"Romance", "Drama", "Comedy">>,
       movie_tone |-> "light",
       movie_themes |-> <<"love", "romance", "connection", "intimacy">>,
       movie_keywords |-> <<"romantic", "heartwarming", "sweet", "touching">>,
       book_genres |-> <<"Romance", "Fiction", "Poetry", "Memoir">>,
       book_themes |-> <<"love", "romance", "connection", "passion">>,
       book_pacing |-> "moderate",
       book_depth |-> "medium",
       book_keywords |-> <<"romantic", "love", "heartwarming", "tender">>,
       avoid_themes |-> <<"heartbreak", "betrayal", "cynical">>,
       recommendation_strategy |-> "match"]
  @@ "proud" :> [music_genres |-> <<"orchestral", "rock", "hip hop", "epic", "triumphant">>,
       music_energy |-> "high",
       music_vibe |-> <<"triumphant", "powerful", "celebratory", "victorious">>,
       music_keywords |-> <<"triumph", "victory", "success", "achievement">>,
       movie_genres |-> <<"Biography", "Sport", "Drama", "Documentary">>,
       movie_tone |-> "uplifting",
       movie_themes |-> <<"achievement", "success", "overcoming", "triumph">>,
       movie_keywords |-> <<"inspiring", "triumphant", "victorious", "powerful">>,
       book_genres |-> <<"Biography", "Self-Help", "History", "Business">>,
       book_themes |-> <<"achievement", "success", "pride", "accomplishment">>,
       book_pacing |-> "moderate",
       book_depth |-> "medium",
       book_keywords |-> <<"success", "achievement", "inspiring", "triumphant">>,
       avoid_themes |-> <<"failure", "defeat", "humiliation">>,
       recommendation_strategy |-> "match"]
  @@ "sad" :> [music_genres |-> <<"sad", "acoustic", "indie folk", "piano", "melancholic">>,
       music_energy |-> "low",
       music_vibe |-> <<"melancholic", "emotional", "somber", "heartfelt">>,
       music_keywords |-> <<"sad", "crying", "emotional", "heartbreak">>,
       movie_genres |-> <<"Drama", "Romance", "Animation">>,
       movie_tone |-> "serious",
       movie_themes |-> <<"loss", "grief", "healing", "catharsis">>,
       movie_keywords |-> <<"emotional", "moving", "cathartic", "poignant">>,
       book_genres |-> <<"Fiction", "Literary Fiction", "Poetry", "Memoir">>,
       book_themes |-> <<"sadness", "loss", "healing", "human condition">>,
       book_pacing |-> "slow",
       book_depth |-> "deep",
       book_keywords |-> <<"emotional", "moving", "cathartic", "healing">>,
       avoid_themes |-> <<"superficial", "overly cheerful">>,
       recommendation_strategy |-> "process"]
  @@ "anxious" :> [music_genres |-> <<"ambient", "lo-fi", "classical", "meditation", "calm">>,
       music_energy |-> "very_low",
       music_vibe |-> <<"calming", "soothing", "peaceful", "gentle">>,
       music_keywords |-> <<"anxiety relief", "calming", "meditation", "peaceful">>,
       movie_genres |-> <<"Animation", "Comedy", "Documentary", "Family">>,
       movie_tone |-> "light",
       movie_themes |-> <<"comfort", "safety", "reassurance", "peace">>,
       movie_keywords |-> <<"comforting", "gentle", "safe", "predictable">>,
       book_genres |-> <<"Self-Help", "Fiction", "Poetry", "Meditation">>,
       book_themes |-> <<"anxiety", "mindfulness", "peace", "grounding">>,
       book_pacing |-> "slow",
       book_depth |-> "medium",
       book_keywords |-> <<"anxiety", "calm", "mindfulness", "peace">>,
       avoid_themes |-> <<"thriller", "suspense", "horror", "chaos">>,
       recommendation_strategy |-> "uplift"]
  @@ "stressed" :> [music_genres |-> <<"ambient", "lo-fi", "acoustic", "classical", "chill">>,
       music_energy |-> "low",
       music_vibe |-> <<"calming", "peaceful", "soothing", "gentle">>,
       music_keywords |-> <<"stress relief", "deep focus", "calm", "meditation">>,
       movie_genres |-> <<"Comedy", "Animation", "Drama">>,
       movie_tone |-> "light",
       movie_themes |-> <<"feel-good", "comfort", "low-stakes", "uplifting">>,
       movie_keywords |-> <<"relaxing", "heartwarming", "gentle">>,
       book_genres |-> <<"Self-Help", "Fiction", "Poetry">>,
       book_themes |-> <<"mindfulness", "rest", "simplicity", "balance">>,
       book_pacing |-> "contemplative",
       book_depth |-> "medium",
       book_keywords |-> <<"stress management", "calm", "peace">>,
       avoid_themes |-> <<"intense", "dark", "complex plots">>,
       recommendation_strategy |-> "uplift"]
  @@ "angry" :> [music_genres |-> <<"rock", "metal", "punk", "aggressive", "intense">>,
       music_energy |-> "very_high",
       music_vibe |-> <<"powerful", "intense", "cathartic", "aggressive">>,
       music_keywords |-> <<"anger", "intense", "power", "release">>,
       movie_genres |-> <<"Action", "Thriller", "Drama">>,
       movie_tone |-> "intense",
       movie_themes |-> <<"justice", "revenge", "overcoming", "empowerment">>,
       movie_keywords |-> <<"intense", "powerful", "cathartic", "justice">>,
       book_genres |-> <<"Thriller", "Fiction", "Biography", "Self-Help">>,
       book_themes |-> <<"justice", "anger management", "empowerment", "transformation">>,
       book_pacing |-> "fast",
       book_depth |-> "medium",
       book_keywords |-> <<"anger", "justice", "empowerment", "cathartic">>,
       avoid_themes |-> <<"passive", "weak", "submissive">>,
       recommendation_strategy |-> "channel"]
  @@ "lonely" :> [music_genres |-> <<"indie", "acoustic", "singer-songwriter", "sad", "soul">>,
       music_energy |-> "low",
       music_vibe |-> <<"melancholic", "intimate", "emotional", "reflective">>,
       music_keywords |-> <<"lonely", "alone", "solitude", "connection">>,
       movie_genres |-> <<"Drama", "Romance", "Comedy", "Animation">>,
       movie_tone |-> "balanced",
       movie_themes |-> <<"connection", "friendship", "belonging", "community">>,
       movie_keywords |-> <<"connection", "friendship", "warmth", "belonging">>,
       book_genres |-> <<"Fiction", "Romance", "Memoir", "Self-Help">>,
       book_themes |-> <<"loneliness", "connection", "belonging", "friendship">>,
       book_pacing |-> "moderate",
       book_depth |-> "medium",
       book_keywords |-> <<"loneliness", "connection", "friendship", "belonging">>,
       avoid_themes |-> <<"isolation", "abandonment", "despair">>,
       recommendation_strategy |-> "process"]
  @@ "heartbroken" :> [music_genres |-> <<"sad", "breakup", "emotional", "soul", "r&b">>,
       music_energy |-> "low",
       music_vibe |-> <<"heartfelt", "emotional", "cathartic", "healing">>,
       music_keywords |-> <<"heartbreak", "breakup", "sad love", "healing">>,
       movie_genres |-> <<"Romance", "Drama", "Comedy">>,
       movie_tone |-> "balanced",
       movie_themes |-> <<"heartbreak", "healing", "self-discovery", "growth">>,
       movie_keywords |-> <<"emotional", "cathartic", "healing", "moving on">>,
       book_genres |-> <<"Romance", "Fiction", "Self-Help", "Poetry">>,
       book_themes |-> <<"heartbreak", "healing", "recovery", "resilience">>,
       book_pacing |-> "moderate",
       book_depth |-> "medium",
       book_keywords |-> <<"heartbreak", "healing", "moving on", "recovery">>,
       avoid_themes |-> <<"toxic relationships", "betrayal", "cynical">>,
       recommendation_strategy |-> "process"]
  @@ "disappointed" :> [music_genres |-> <<"indie", "acoustic", "melancholic", "soft rock", "alternative">>,
       music_energy |-> "low",
       music_vibe |-> <<"reflective", "somber", "hopeful", "gentle">>,
       music_keywords |-> <<"disappointed", "let down", "reflective", "hopeful">>,
       movie_genres |-> <<"Drama", "Biography", "Comedy">>,
       movie_tone |-> "balanced",
       movie_themes |-> <<"resilience", "overcoming", "hope", "growth">>,
       movie_keywords |-> <<"inspiring", "hopeful", "uplifting", "resilient">>,
       book_genres |-> <<"Self-Help", "Biography", "Fiction", "Philosophy">>,
       book_themes |-> <<"disappointment", "resilience", "perspective", "growth">>,
       book_pacing |-> "moderate",
       book_depth |-> "medium",
       book_keywords |-> <<"resilience", "overcoming", "hope", "perspective">>,
       avoid_themes |-> <<"failure", "giving up", "pessimistic">>,
       recommendation_strategy |-> "uplift"]
  @@ "guilty" :> [music_genres |-> <<"acoustic", "indie folk", "melancholic", "soft", "reflective">>,
       music_energy |-> "low",
       music_vibe |-> <<"reflective", "somber", "contemplative", "gentle">>,
       music_keywords |-> <<"regret", "reflection", "forgiveness", "healing">>,
       movie_genres |-> <<"Drama", "Biography">>,
       movie_tone |-> "serious",
       movie_themes |-> <<"redemption", "forgiveness", "growth", "learning">>,
       movie_keywords |-> <<"redemptive", "thoughtful", "meaningful", "forgiving">>,
       book_genres |-> <<"Fiction", "Philosophy", "Self-Help", "Memoir">>,
       book_themes |-> <<"guilt", "redemption", "forgiveness", "growth">>,
       book_pacing |-> "slow",
       book_depth |-> "deep",
       book_keywords |-> <<"guilt", "redemption", "forgiveness", "self-compassion">>,
       avoid_themes |-> <<"judgmental", "harsh", "unforgiving">>,
       recommendation_strategy |-> "process"]
  @@ "jealous" :> [music_genres |-> <<"r&b", "soul", "alternative", "emotional", "intense">>,
       music_energy |-> "medium",
       music_vibe |-> <<"intense", "emotional", "powerful", "raw">>,
       music_keywords |-> <<"jealousy", "emotional", "intense", "raw">>,
       movie_genres |-> <<"Drama", "Thriller", "Romance">>,
       movie_tone |-> "dark",
       movie_themes |-> <<"self-worth", "confidence", "overcoming", "growth">>,
       movie_keywords |-> <<"intense", "emotional", "transformative", "powerful">>,
       book_genres |-> <<"Psychology", "Self-Help", "Fiction", "Memoir">>,
       book_themes |-> <<"jealousy", "self-worth", "confidence", "security">>,
       book_pacing |-> "moderate",
       book_depth |-> "deep",
       book_keywords |-> <<"jealousy", "self-worth", "confidence", "security">>,
       avoid_themes |-> <<"comparison", "inadequacy">>,
       recommendation_strategy |-> "process"]
  @@ "embarrassed" :> [music_genres |-> <<"chill", "lo-fi", "indie", "soft", "comforting">>,
       music_energy |-> "low",
       music_vibe |-> <<"comforting", "gentle", "reassuring", "calm">>,
       music_keywords |-> <<"comfort", "reassuring", "gentle", "calm">>,
       movie_genres |-> <<"Comedy", "Drama", "Animation">>,
       movie_tone |-> "light",
       movie_themes |-> <<"acceptance", "humor", "resilience", "growth">>,
       movie_keywords |-> <<"relatable", "comforting", "lighthearted", "accepting">>,
       book_genres |-> <<"Humor", "Self-Help", "Memoir", "Fiction">>,
       book_themes |-> <<"embarrassment", "acceptance", "humor", "resilience">>,
       book_pacing |-> "moderate",
       book_depth |-> "light",
       book_keywords |-> <<"embarrassment", "acceptance", "humor", "relatable">>,
       avoid_themes |-> <<"humiliation", "shame", "judgment">>,
       recommendation_strategy |-> "uplift"]
  @@ "afraid" :> [music_genres |-> <<"ambient", "calming", "soft", "meditation", "peaceful">>,
       music_energy |-> "very_low",
       music_vibe |-> <<"soothing", "safe", "calming", "reassuring">>,
       music_keywords |-> <<"calm", "safe", "peaceful", "reassuring">>,
       movie_genres |-> <<"Animation", "Comedy", "Family", "Documentary">>,
       movie_tone |-> "light",
       movie_themes |-> <<"safety", "courage", "overcoming", "hope">>,
       movie_keywords |-> <<"comforting", "reassuring", "hopeful", "safe">>,
       book_genres |-> <<"Self-Help", "Fiction", "Biography", "Philosophy">>,
       book_themes |-> <<"courage", "fear", "resilience", "safety">>,
       book_pacing |-> "slow",
       book_depth |-> "medium",
       book_keywords |-> <<"courage", "fear", "overcoming", "resilience">>,
       avoid_themes |-> <<"horror", "thriller", "scary", "dangerous">>,
       recommendation_strategy |-> "uplift"]
  @@ "hopeless" :> [music_genres |-> <<"ambient", "classical", "soft", "hopeful", "uplifting">>,
       music_energy |-> "low",
       music_vibe |-> <<"gentle", "hopeful", "uplifting", "comforting">>,
       music_keywords |-> <<"hope", "uplifting", "healing", "gentle">>,
       movie_genres |-> <<"Drama", "Biography", "Documentary">>,
       movie_tone |-> "uplifting",
       movie_themes |-> <<"hope", "resilience", "overcoming", "triumph">>,
       movie_keywords |-> <<"inspiring", "hopeful", "uplifting", "resilient">>,
       book_genres |-> <<"Biography", "Self-Help", "Philosophy", "Fiction">>,
       book_themes |-> <<"hope", "resilience", "meaning", "recovery">>,
       book_pacing |-> "moderate",
       book_depth |-> "deep",
       book_keywords |-> <<"hope", "resilience", "inspiring", "meaning">>,
       avoid_themes |-> <<"despair", "defeat", "dark", "pessimistic">>,
       recommendation_strategy |-> "uplift"]
  @@ "energetic" :> [music_genres |-> <<"electronic", "rock", "hip hop", "workout", "dance">>,
       music_energy |-> "very_high",
       music_vibe |-> <<"energizing", "powerful", "intense", "motivating">>,
       music_keywords |-> <<"workout", "pump up", "energy", "motivation">>,
       movie_genres |-> <<"Action", "Adventure", "Thriller", "Sport">>,
       movie_tone |-> "intense",
       movie_themes |-> <<"action", "adventure", "competition", "excitement">>,
       movie_keywords |-> <<"action-packed", "thrilling", "fast-paced", "exciting">>,
       book_genres |-> <<"Thriller", "Action", "Adventure", "Science Fiction">>,
       book_themes |-> <<"action", "adventure", "intensity", "challenge">>,
       book_pacing |-> "fast",
       book_depth |-> "light",
       book_keywords |-> <<"fast-paced", "action", "thriller", "exciting">>,
       avoid_themes |-> <<"slow", "melancholy", "passive">>,
       recommendation_strategy |-> "match"]
  @@ "tired" :> [music_genres |-> <<"ambient", "lo-fi", "chill", "soft", "calm">>,
       music_energy |-> "very_low",
       music_vibe |-> <<"relaxing", "gentle", "soothing", "peaceful">>,
       music_keywords |-> <<"sleep", "rest", "relaxing", "gentle">>,
       movie_genres |-> <<"Animation", "Comedy", "Documentary", "Family">>,
       movie_tone |-> "light",
       movie_themes |-> <<"comfort", "simplicity", "ease", "gentle">>,
       movie_keywords |-> <<"easy", "relaxing", "comforting", "light">>,
       book_genres |-> <<"Fiction", "Poetry", "Humor", "Short Stories">>,
       book_themes |-> <<"rest", "comfort", "simplicity", "ease">>,
       book_pacing |-> "slow",
       book_depth |-> "light",
       book_keywords |-> <<"easy read", "light", "comforting", "short">>,
       avoid_themes |-> <<"intense", "demanding", "complex", "stressful">>,
       recommendation_strategy |-> "match"]
  @@ "restless" :> [music_genres |-> <<"alternative", "indie rock", "electronic", "experimental", "dynamic">>,
       music_energy |-> "high",
       music_vibe |-> <<"dynamic", "interesting", "varied", "stimulating">>,
       music_keywords |-> <<"dynamic", "varied", "interesting", "engaging">>,
       movie_genres |-> <<"Thriller", "Mystery", "Science Fiction", "Adventure">>,
       movie_tone |-> "balanced",
       movie_themes |-> <<"mystery", "exploration", "intrigue", "discovery">>,
       movie_keywords |-> <<"engaging", "intriguing", "captivating", "mysterious">>,
       book_genres |-> <<"Mystery", "Thriller", "Science Fiction", "Adventure">>,
       book_themes |-> <<"mystery", "exploration", "discovery", "intrigue">>,
       book_pacing |-> "fast",
       book_depth |-> "medium",
       book_keywords |-> <<"page-turner", "engaging", "intriguing", "captivating">>,
       avoid_themes |-> <<"boring", "predictable", "slow", "mundane">>,
       recommendation_strategy |-> "channel"]
  @@ "sluggish" :> [music_genres |-> <<"chill", "lo-fi", "soft rock", "acoustic", "ambient">>,
       music_energy |-> "low",
       music_vibe |-> <<"gentle", "uplifting", "easy", "comforting">>,
       music_keywords |-> <<"easy", "gentle", "uplifting", "comfortable">>,
       movie_genres |-> <<"Comedy", "Animation", "Romance", "Documentary">>,
       movie_tone |-> "light",
       movie_themes |-> <<"motivation", "gentle energy", "uplifting", "comfort">>,
       movie_keywords |-> <<"light", "uplifting", "easy", "motivating">>,
       book_genres |-> <<"Fiction", "Self-Help", "Humor", "Graphic Novels">>,
       book_themes |-> <<"motivation", "energy", "simplicity", "inspiration">>,
       book_pacing |-> "moderate",
       book_depth |-> "light",
       book_keywords |-> <<"motivating", "easy", "uplifting", "energizing">>,
       avoid_themes |-> <<"heavy", "demanding", "dark">>,
       recommendation_strategy |-> "uplift"]
  @@ "hyper" :> [music_genres |-> <<"electronic", "dance", "fast", "intense", "high-energy">>,
       music_energy |-> "very_high",
       music_vibe |-> <<"intense", "fast", "energetic", "powerful">>,
       music_keywords |-> <<"high energy", "intense", "fast", "powerful">>,
       movie_genres |-> <<"Action", "Thriller", "Adventure", "Comedy">>,
       movie_tone |-> "intense",
       movie_themes |-> <<"action", "excitement", "adventure", "energy">>,
       movie_keywords |-> <<"fast-paced", "intense", "action-packed", "exciting">>,
       book_genres |-> <<"Thriller", "Action", "Science Fiction", "Adventure">>,
       book_themes |-> <<"action", "intensity", "excitement", "speed">>,
       book_pacing |-> "fast",
       book_depth |-> "light",
       book_keywords |-> <<"fast-paced", "action", "intense", "exciting">>,
       avoid_themes |-> <<"slow", "calm", "boring">>,
       recommendation_strategy |-> "channel"]
  @@ "burnt_out" :> [music_genres |-> <<"ambient", "meditation", "nature sounds", "soft", "healing">>,
       music_energy |-> "very_low",
       music_vibe |-> <<"healing", "restorative", "gentle", "peaceful">>,
       music_keywords |-> <<"recovery", "healing", "rest", "restoration">>,
       movie_genres |-> <<"Documentary", "Animation", "Comedy", "Nature">>,
       movie_tone |-> "light",
       movie_themes |-> <<"recovery", "rest", "simplicity", "peace">>,
       movie_keywords |-> <<"restorative", "gentle", "peaceful", "healing">>,
       book_genres |-> <<"Self-Help", "Memoir", "Poetry", "Philosophy">>,
       book_themes |-> <<"burnout", "recovery", "balance", "self-care">>,
       book_pacing |-> "slow",
       book_depth |-> "medium",
       book_keywords |-> <<"burnout", "recovery", "self-care", "healing">>,
       avoid_themes |-> <<"demanding", "stressful", "intense", "work">>,
       recommendation_strategy |-> "uplift"]
  @@ "mellow" :> [music_genres |-> <<"jazz", "chill", "acoustic", "soft rock", "indie">>,
       music_energy |-> "low",
       music_vibe |-> <<"relaxed", "smooth", "easy", "comfortable">>,
       music_keywords |-> <<"mellow", "chill", "relaxed", "smooth">>,
       movie_genres |-> <<"Drama", "Romance", "Comedy", "Documentary">>,
       movie_tone |-> "balanced",
       movie_themes |-> <<"ease", "comfort", "simplicity", "contentment">>,
       movie_keywords |-> <<"relaxed", "easy", "smooth", "comfortable">>,
       book_genres |-> <<"Fiction", "Poetry", "Essays", "Memoir">>,
       book_themes |-> <<"ease", "reflection", "simplicity", "contentment">>,
       book_pacing |-> "slow",
       book_depth |-> "medium",
       book_keywords |-> <<"relaxed", "easy", "reflective", "comfortable">>,
       avoid_themes |-> <<"intense", "chaotic", "demanding">>,
       recommendation_strategy |-> "match"]
  @@ "drowsy" :> [music_genres |-> <<"ambient", "sleep", "soft", "meditation", "calm">>,
       music_energy |-> "very_low",
       music_vibe |-> <<"soothing", "gentle", "peaceful", "sleepy">>,
       music_keywords |-> <<"sleep", "bedtime", "lullaby", "gentle">>,
       movie_genres |-> <<"Animation", "Documentary", "Nature">>,
       movie_tone |-> "light",
       movie_themes |-> <<"peaceful", "gentle", "calming", "simple">>,
       movie_keywords |-> <<"gentle", "soothing", "peaceful", "quiet">>,
       book_genres |-> <<"Poetry", "Short Stories", "Fiction", "Essays">>,
       book_themes |-> <<"peace", "rest", "dreams", "comfort">>,
       book_pacing |-> "very slow",
       book_depth |-> "light",
       book_keywords |-> <<"bedtime", "gentle", "peaceful", "short">>,
       avoid_themes |-> <<"exciting", "intense", "scary", "stimulating">>,
       recommendation_strategy |-> "match"]
  @@ "social" :> [music_genres |-> <<"pop", "dance", "party", "funk", "upbeat">>,
       music_energy |-> "high",
       music_vibe |-> <<"fun", "celebratory", "energetic", "social">>,
       music_keywords |-> <<"party", "friends", "celebration", "social">>,
       movie_genres |-> <<"Comedy", "Romance", "Drama", "Musical">>,
       movie_tone |-> "light",
       movie_themes |-> <<"friendship", "community", "connection", "fun">>,
       movie_keywords |-> <<"fun", "social", "ensemble", "friendship">>,
       book_genres |-> <<"Fiction", "Contemporary", "Humor", "Romance">>,
       book_themes |-> <<"friendship", "social", "community", "connection">>,
       book_pacing |-> "moderate",
       book_depth |-> "light",
       book_keywords |-> <<"friendship", "social", "relationships", "community">>,
       avoid_themes |-> <<"isolation", "antisocial", "lonely">>,
       recommendation_strategy |-> "match"]
  @@ "introverted" :> [music_genres |-> <<"indie", "acoustic", "lo-fi", "ambient", "soft">>,
       music_energy |-> "low",
       music_vibe |-> <<"peaceful", "introspective", "gentle", "calm">>,
       music_keywords |-> <<"alone time", "peaceful", "solitude", "quiet">>,
       movie_genres |-> <<"Drama", "Documentary", "Animation", "Art House">>,
       movie_tone |-> "balanced",
       movie_themes |-> <<"solitude", "reflection", "peace", "individual">>,
       movie_keywords |-> <<"quiet", "reflective", "contemplative", "peaceful">>,
       book_genres |-> <<"Fiction", "Philosophy", "Poetry", "Memoir">>,
       book_themes |-> <<"solitude", "reflection", "introspection", "peace">>,
       book_pacing |-> "slow",
       book_depth |-> "deep",
       book_keywords |-> <<"introspective", "quiet", "reflective", "solitude">>,
       avoid_themes |-> <<"loud", "social pressure", "chaotic">>,
       recommendation_strategy |-> "match"]
  @@ "romantic" :> [music_genres |-> <<"r&b", "soul", "love songs", "jazz", "acoustic">>,
       music_energy |-> "low",
       music_vibe |-> <<"romantic", "intimate", "tender", "warm">>,
       music_keywords |-> <<"love", "romantic", "intimate", "passion">>,
       movie_genres |-> <<"Romance", "Drama", "Comedy">>,
       movie_tone |-> "light",
       movie_themes |-> <<"love", "romance", "passion", "connection">>,
       movie_keywords |-> <<"romantic", "heartwarming", "sweet", "loving">>,
       book_genres |-> <<"Romance", "Fiction", "Poetry">>,
       book_themes |-> <<"love", "romance", "passion", "intimacy">>,
       book_pacing |-> "moderate",
       book_depth |-> "medium",
       book_keywords |-> <<"romantic", "love", "passion", "heartwarming">>,
       avoid_themes |-> <<"heartbreak", "cynical", "bitter">>,
       recommendation_strategy |-> "match"]
  @@ "nostalgic" :> [music_genres |-> <<"classic rock", "oldies", "80s", "90s", "retro">>,
       music_energy |-> "medium",
       music_vibe |-> <<"nostalgic", "bittersweet", "reflective", "warm">>,
       music_keywords |-> <<"throwback", "memories", "nostalgia", "classic">>,
       movie_genres |-> <<"Drama", "Comedy", "Family", "Animation">>,
       movie_tone |-> "balanced",
       movie_themes |-> <<"memory", "past", "childhood", "coming of age">>,
       movie_keywords |-> <<"nostalgic", "sentimental", "memories", "classic">>,
       book_genres |-> <<"Memoir", "Historical Fiction", "Fiction", "Classic">>,
       book_themes |-> <<"memory", "past", "nostalgia", "time">>,
       book_pacing |-> "moderate",
       book_depth |-> "medium",
       book_keywords |-> <<"nostalgic", "memories", "past", "reflective">>,
       avoid_themes |-> <<"futuristic", "modern", "cutting-edge">>,
       recommendation_strategy |-> "match"]
  @@ "homesick" :> [music_genres |-> <<"folk", "acoustic", "country", "soft", "comforting">>,
       music_energy |-> "low",
       music_vibe |-> <<"comforting", "warm", "familiar", "gentle">>,
       music_keywords |-> <<"home", "comfort", "family", "familiar">>,
       movie_genres |-> <<"Family", "Drama", "Animation", "Comedy">>,
       movie_tone |-> "light",
       movie_themes |-> <<"family", "home", "belonging", "comfort">>,
       movie_keywords |-> <<"heartwarming", "family", "comforting", "home">>,
       book_genres |-> <<"Fiction", "Memoir", "Family", "Contemporary">>,
       book_themes |-> <<"home", "family", "belonging", "roots">>,
       book_pacing |-> "moderate",
       book_depth |-> "medium",
       book_keywords |-> <<"family", "home", "belonging", "comfort">>,
       avoid_themes |-> <<"displacement", "loss", "abandonment">>,
       recommendation_strategy |-> "process"]
  @@ "misunderstood" :> [music_genres |-> <<"alternative", "indie", "emo", "rock", "emotional">>,
       music_energy |-> "medium",
       music_vibe |-> <<"emotional", "raw", "authentic", "expressive">>,
       music_keywords |-> <<"misunderstood", "emotional", "authentic", "raw">>,
       movie_genres |-> <<"Drama", "Biography", "Coming-of-Age">>,
       movie_tone |-> "serious",
       movie_themes |-> <<"understanding", "acceptance", "identity", "expression">>,
       movie_keywords |-> <<"relatable", "authentic", "emotional", "validating">>,
       book_genres |-> <<"Fiction", "Young Adult", "Memoir", "Psychology">>,
       book_themes |-> <<"understanding", "identity", "acceptance", "expression">>,
       book_pacing |-> "moderate",
       book_depth |-> "medium",
       book_keywords |-> <<"relatable", "understanding", "identity", "validation">>,
       avoid_themes |-> <<"judgmental", "dismissive", "superficial">>,
       recommendation_strategy |-> "process"]
  @@ "betrayed" :> [music_genres |-> <<"emotional", "alternative", "rock", "raw", "powerful">>,
       music_energy |-> "medium",
       music_vibe |-> <<"intense", "emotional", "cathartic", "powerful">>,
       music_keywords |-> <<"betrayal", "hurt", "anger", "healing">>,
       movie_genres |-> <<"Drama", "Thriller">>,
       movie_tone |-> "dark",
       movie_themes |-> <<"betrayal", "recovery", "strength", "justice">>,
       movie_keywords |-> <<"intense", "emotional", "cathartic", "powerful">>,
       book_genres |-> <<"Fiction", "Thriller", "Psychology", "Self-Help">>,
       book_themes |-> <<"betrayal", "trust", "healing", "recovery">>,
       book_pacing |-> "moderate",
       book_depth |-> "deep",
       book_keywords |-> <<"betrayal", "healing", "recovery", "trust">>,
       avoid_themes |-> <<"trust issues", "paranoia">>,
       recommendation_strategy |-> "process"]
  @@ "supported" :> [music_genres |-> <<"uplifting", "soul", "gospel", "indie", "warm">>,
       music_energy |-> "medium",
       music_vibe |-> <<"warm", "uplifting", "comforting", "grateful">>,
       music_keywords |-> <<"support", "gratitude", "love", "comfort">>,
       movie_genres |-> <<"Drama", "Family", "Biography", "Comedy">>,
       movie_tone |-> "uplifting",
       movie_themes |-> <<"support", "community", "love", "gratitude">>,
       movie_keywords |-> <<"heartwarming", "uplifting", "supportive", "comforting">>,
       book_genres |-> <<"Memoir", "Fiction", "Self-Help", "Biography">>,
       book_themes |-> <<"support", "community", "gratitude", "connection">>,
       book_pacing |-> "moderate",
       book_depth |-> "medium",
       book_keywords |-> <<"support", "community", "gratitude", "uplifting">>,
       avoid_themes |-> <<"betrayal", "isolation", "abandonment">>,
       recommendation_strategy |-> "match"]
  @@ "contemplative" :> [music_genres |-> <<"ambient", "classical", "jazz", "instrumental", "meditative">>,
       music_energy |-> "low",
       music_vibe |-> <<"thoughtful", "deep", "peaceful", "reflective">>,
       music_keywords |-> <<"contemplation", "reflection", "thought", "meditation">>,
       movie_genres |-> <<"Drama", "Documentary", "Art House", "Foreign">>,
       movie_tone |-> "serious",
       movie_themes |-> <<"reflection", "meaning", "depth", "contemplation">>,
       movie_keywords |-> <<"thought-provoking", "deep", "contemplative", "meaningful">>,
       book_genres |-> <<"Philosophy", "Literary Fiction", "Poetry", "Essays">>,
       book_themes |-> <<"contemplation", "meaning", "reflection", "depth">>,
       book_pacing |-> "slow",
       book_depth |-> "deep",
       book_keywords |-> <<"contemplative", "philosophical", "deep", "thoughtful">>,
       avoid_themes |-> <<"superficial", "action-heavy", "shallow">>,
       recommendation_strategy |-> "match"]
  @@ "philosophical" :> [music_genres |-> <<"classical", "ambient", "jazz", "experimental", "avant-garde">>,
       music_energy |-> "low",
       music_vibe |-> <<"intellectual", "deep", "complex", "thought-provoking">>,
       music_keywords |-> <<"philosophical", "deep", "intellectual", "complex">>,
       movie_genres |-> <<"Drama", "Science Fiction", "Documentary", "Art House">>,
       movie_tone |-> "serious",
       movie_themes |-> <<"existence", "meaning", "philosophy", "consciousness">>,
       movie_keywords |-> <<"philosophical", "profound", "thought-provoking", "deep">>,
       book_genres |-> <<"Philosophy", "Science", "Psychology", "Literary Fiction">>,
       book_themes |-> <<"philosophy", "existence", "meaning", "consciousness">>,
       book_pacing |-> "slow",
       book_depth |-> "profound",
       book_keywords |-> <<"philosophical", "deep", "meaning", "existence">>,
       avoid_themes |-> <<"simple", "escapist", "superficial">>,
       recommendation_strategy |-> "match"]
  @@ "curious" :> [music_genres |-> <<"world", "jazz", "experimental", "eclectic", "indie">>,
       music_energy |-> "medium",
       music_vibe |-> <<"interesting", "diverse", "exploratory", "engaging">>,
       music_keywords |-> <<"discovery", "exploration", "learning", "diverse">>,
       movie_genres |-> <<"Documentary", "Science Fiction", "Mystery", "Adventure">>,
       movie_tone |-> "balanced",
       movie_themes |-> <<"discovery", "learning", "exploration", "knowledge">>,
       movie_keywords |-> <<"fascinating", "educational", "intriguing", "discovery">>,
       book_genres |-> <<"Non-fiction", "Science", "History", "Biography">>,
       book_themes |-> <<"curiosity", "discovery", "learning", "knowledge">>,
       book_pacing |-> "moderate",
       book_depth |-> "medium",
       book_keywords |-> <<"fascinating", "learning", "discovery", "educational">>,
       avoid_themes |-> <<"boring", "dry", "overly technical">>,
       recommendation_strategy |-> "match"]
  @@ "confused" :> [music_genres |-> <<"ambient", "chill", "soft", "calming", "clear">>,
       music_energy |-> "low",
       music_vibe |-> <<"calming", "clarifying", "gentle", "peaceful">>,
       music_keywords |-> <<"clarity", "calm", "peaceful", "simple">>,
       movie_genres |-> <<"Drama", "Documentary", "Biography", "Animation">>,
       movie_tone |-> "balanced",
       movie_themes |-> <<"clarity", "understanding", "simplicity", "resolution">>,
       movie_keywords |-> <<"clear", "insightful", "understanding", "enlightening">>,
       book_genres |-> <<"Self-Help", "Philosophy", "Fiction", "Psychology">>,
       book_themes |-> <<"clarity", "understanding", "guidance", "insight">>,
       book_pacing |-> "moderate",
       book_depth |-> "medium",
       book_keywords |-> <<"clarity", "guidance", "understanding", "insight">>,
       avoid_themes |-> <<"complex", "confusing", "ambiguous">>,
       recommendation_strategy |-> "uplift"]
  @@ "stuck" :> [music_genres |-> <<"uplifting", "motivational", "rock", "indie", "inspiring">>,
       music_energy |-> "medium",
       music_vibe |-> <<"motivating", "empowering", "uplifting", "moving">>,
       music_keywords |-> <<"breakthrough", "change", "motivation", "movement">>,
       movie_genres |-> <<"Biography", "Drama", "Documentary", "Sport">>,
       movie_tone |-> "uplifting",
       movie_themes |-> <<"breakthrough", "change", "transformation", "overcoming">>,
       movie_keywords |-> <<"inspiring", "transformative", "breakthrough", "motivating">>,
       book_genres |-> <<"Self-Help", "Biography", "Psychology", "Business">>,
       book_themes |-> <<"change", "breakthrough", "transformation", "progress">>,
       book_pacing |-> "moderate",
       book_depth |-> "medium",
       book_keywords |-> <<"breakthrough", "change", "transformation", "unstuck">>,
       avoid_themes |-> <<"stagnation", "hopeless", "trapped">>,
       recommendation_strategy |-> "uplift"]
  @@ "purposeful" :> [music_genres |-> <<"orchestral", "epic", "motivational", "inspiring", "powerful">>,
       music_energy |-> "high",
       music_vibe |-> <<"powerful", "purposeful", "determined", "inspiring">>,
       music_keywords |-> <<"purpose", "meaning", "mission", "drive">>,
       movie_genres |-> <<"Biography", "Drama", "Documentary", "History">>,
       movie_tone |-> "uplifting",
       movie_themes |-> <<"purpose", "meaning", "mission", "impact">>,
       movie_keywords |-> <<"purposeful", "meaningful", "inspiring", "impactful">>,
       book_genres |-> <<"Biography", "Self-Help", "Philosophy", "Business">>,
       book_themes |-> <<"purpose", "meaning", "mission", "legacy">>,
       book_pacing |-> "moderate",
       book_depth |-> "deep",
       book_keywords |-> <<"purpose", "meaningful", "mission", "impact">>,
       avoid_themes |-> <<"meaningless", "aimless", "empty">>,
       recommendation_strategy |-> "match"]
  @@ "empty" :> [music_genres |-> <<"ambient", "soft", "healing", "gentle", "hopeful">>,
       music_energy |-> "low",
       music_vibe |-> <<"gentle", "healing", "comforting", "filling">>,
       music_keywords |-> <<"healing", "comfort", "hope", "gentle">>,
       movie_genres |-> <<"Drama", "Animation", "Documentary", "Biography">>,
       movie_tone |-> "balanced",
       movie_themes |-> <<"healing", "recovery", "hope", "meaning">>,
       movie_keywords |-> <<"healing", "meaningful", "hopeful", "restorative">>,
       book_genres |-> <<"Self-Help", "Philosophy", "Fiction", "Poetry">>,
       book_themes |-> <<"healing", "meaning", "recovery", "fulfillment">>,
       book_pacing |-> "slow",
       book_depth |-> "deep",
       book_keywords |-> <<"healing", "meaning", "fulfillment", "hope">>,
       avoid_themes |-> <<"nihilistic", "dark", "hopeless">>,
       recommendation_strategy |-> "uplift"]
  @@ "overwhelmed" :> [music_genres |-> <<"ambient", "meditation", "calm", "peaceful", "simple">>,
       music_energy |-> "very_low",
       music_vibe |-> <<"calming", "simplifying", "peaceful", "grounding">>,
       music_keywords |-> <<"calm", "simplicity", "peace", "grounding">>,
       movie_genres |-> <<"Animation", "Comedy", "Documentary", "Nature">>,
       movie_tone |-> "light",
       movie_themes |-> <<"simplicity", "peace", "clarity", "calm">>,
       movie_keywords |-> <<"simple", "calming", "peaceful", "gentle">>,
       book_genres |-> <<"Self-Help", "Poetry", "Fiction", "Meditation">>,
       book_themes |-> <<"simplicity", "mindfulness", "calm", "balance">>,
       book_pacing |-> "slow",
       book_depth |-> "light",
       book_keywords |-> <<"simplicity", "calm", "mindfulness", "peace">>,
       avoid_themes |-> <<"complex", "intense", "demanding", "chaotic">>,
       recommendation_strategy |-> "uplift"]
  @@ "bittersweet" :> [music_genres |-> <<"indie", "folk", "acoustic", "melancholic", "emotional">>,
       music_energy |-> "low",
       music_vibe |-> <<"bittersweet", "nostalgic", "emotional", "reflective">>,
       music_keywords |-> <<"bittersweet", "nostalgic", "emotional", "poignant">>,
       movie_genres |-> <<"Drama", "Romance", "Coming-of-Age">>,
       movie_tone |-> "balanced",
       movie_themes |-> <<"bittersweet", "nostalgia", "change", "growth">>,
       movie_keywords |-> <<"bittersweet", "poignant", "moving", "emotional">>,
       book_genres |-> <<"Fiction", "Literary Fiction", "Poetry", "Memoir">>,
       book_themes |-> <<"bittersweet", "change", "transition", "nostalgia">>,
       book_pacing |-> "slow",
       book_depth |-> "deep",
       book_keywords |-> <<"bittersweet", "poignant", "emotional", "moving">>,
       avoid_themes |-> <<"overly happy", "overly sad", "extreme">>,
       recommendation_strategy |-> "match"]
  @@ "numb" :> [music_genres |-> <<"ambient", "electronic", "post-rock", "atmospheric", "minimal">>,
       music_energy |-> "low",
       music_vibe |-> <<"atmospheric", "gentle", "awakening", "stirring">>,
       music_keywords |-> <<"awakening", "gentle", "stirring", "emotional">>,
       movie_genres |-> <<"Drama", "Art House", "Documentary">>,
       movie_tone |-> "serious",
       movie_themes |-> <<"awakening", "feeling", "connection", "recovery">>,
       movie_keywords |-> <<"awakening", "stirring", "emotional", "profound">>,
       book_genres |-> <<"Fiction", "Psychology", "Memoir", "Philosophy">>,
       book_themes |-> <<"awakening", "feeling", "recovery", "connection">>,
       book_pacing |-> "slow",
       book_depth |-> "deep",
       book_keywords |-> <<"awakening", "emotional", "recovery", "feeling">>,
       avoid_themes |-> <<"intense", "overwhelming", "harsh">>,
       recommendation_strategy |-> "uplift"]
  @@ "vengeful" :> [music_genres |-> <<"rock", "metal", "intense", "powerful", "aggressive">>,
       music_energy |-> "very_high",
       music_vibe |-> <<"powerful", "intense", "cathartic", "strong">>,
       music_keywords |-> <<"power", "justice", "strength", "intense">>,
       movie_genres |-> <<"Action", "Thriller", "Drama">>,
       movie_tone |-> "dark",
       movie_themes |-> <<"justice", "empowerment", "strength", "overcoming">>,
       movie_keywords |-> <<"powerful", "intense", "justice", "cathartic">>,
       book_genres |-> <<"Thriller", "Fiction", "Psychology", "Self-Help">>,
       book_themes |-> <<"justice", "anger", "healing", "forgiveness">>,
       book_pacing |-> "fast",
       book_depth |-> "medium",
       book_keywords |-> <<"justice", "empowerment", "healing", "strength">>,
       avoid_themes |-> <<"weak", "passive", "forgiving too quickly">>,
       recommendation_strategy |-> "channel"]
  @@ "rebellious" :> [music_genres |-> <<"punk", "rock", "alternative", "hip hop", "rebellious">>,
       music_energy |-> "very_high",
       music_vibe |-> <<"defiant", "powerful", "bold", "liberating">>,
       music_keywords |-> <<"rebellion", "freedom", "defiance", "power">>,
       movie_genres |-> <<"Drama", "Action", "Biography", "Thriller">>,
       movie_tone |-> "intense",
       movie_themes |-> <<"rebellion", "freedom", "independence", "justice">>,
       movie_keywords |-> <<"rebellious", "defiant", "liberating", "powerful">>,
       book_genres |-> <<"Fiction", "Biography", "History", "Young Adult">>,
       book_themes |-> <<"rebellion", "freedom", "independence", "defiance">>,
       book_pacing |-> "fast",
       book_depth |-> "medium",
       book_keywords |-> <<"rebellion", "freedom", "defiance", "independence">>,
       avoid_themes |-> <<"conformity", "submission", "passive">>,
       recommendation_strategy |-> "channel"]
  @@ "vulnerable" :> [music_genres |-> <<"acoustic", "indie", "soft", "intimate", "emotional">>,
       music_energy |-> "low",
       music_vibe |-> <<"intimate", "gentle", "tender", "authentic">>,
       music_keywords |-> <<"vulnerable", "honest", "intimate", "authentic">>,
       movie_genres |-> <<"Drama", "Romance", "Biography">>,
       movie_tone |-> "serious",
       movie_themes |-> <<"vulnerability", "authenticity", "connection", "courage">>,
       movie_keywords |-> <<"honest", "intimate", "authentic", "tender">>,
       book_genres |-> <<"Memoir", "Fiction", "Poetry", "Self-Help">>,
       book_themes |-> <<"vulnerability", "authenticity", "courage", "openness">>,
       book_pacing |-> "slow",
       book_depth |-> "deep",
       book_keywords |-> <<"vulnerable", "authentic", "honest", "courage">>,
       avoid_themes |-> <<"harsh", "judgmental", "cold">>,
       recommendation_strategy |-> "process"]
  @@ "bored" :> [music_genres |-> <<"eclectic", "diverse", "experimental", "interesting", "varied">>,
       music_energy |-> "medium",
       music_vibe |-> <<"interesting", "engaging", "stimulating", "diverse">>,
       music_keywords |-> <<"interesting", "engaging", "diverse", "stimulating">>,
       movie_genres |-> <<"Mystery", "Thriller", "Science Fiction", "Adventure">>,
       movie_tone |-> "balanced",
       movie_themes |-> <<"intrigue", "mystery", "adventure", "discovery">>,
       movie_keywords |-> <<"engaging", "intriguing", "captivating", "exciting">>,
       book_genres |-> <<"Mystery", "Thriller", "Science Fiction", "Adventure">>,
       book_themes |-> <<"mystery", "intrigue", "adventure", "discovery">>,
       book_pacing |-> "fast",
       book_depth |-> "medium",
       book_keywords |-> <<"engaging", "page-turner", "intriguing", "captivating">>,
       avoid_themes |-> <<"boring", "slow", "predictable", "dull">>,
       recommendation_strategy |-> "escape"]

MOOD_SIMILARITIES_SRC ==
     "happy" :> <<"excited", "playful", "content", "grateful">>
  @@ "excited" :> <<"happy", "energetic", "playful", "hyper">>
  @@ "grateful" :> <<"happy", "content", "peaceful", "loving">>
  @@ "peaceful" :> <<"calm", "content", "mellow", "drowsy">>
  @@ "confident" :> <<"proud", "motivated", "purposeful", "empowered">>
  @@ "inspired" :> <<"motivated", "curious", "purposeful", "excited">>
  @@ "playful" :> <<"happy", "excited", "social", "energetic">>
  @@ "content" :> <<"happy", "peaceful", "grateful", "calm">>
  @@ "loving" :> <<"romantic", "grateful", "warm", "affectionate">>
  @@ "proud" :> <<"confident", "happy", "accomplished", "motivated">>
  @@ "sad" :> <<"lonely", "heartbroken", "disappointed", "empty">>
  @@ "anxious" :> <<"stressed", "afraid", "overwhelmed", "restless">>
  @@ "stressed" :> <<"anxious", "overwhelmed", "burnt_out", "tired">>
  @@ "angry" :> <<"frustrated", "vengeful", "betrayed", "rebellious">>
  @@ "lonely" :> <<"sad", "homesick", "isolated", "misunderstood">>
  @@ "heartbroken" :> <<"sad", "betrayed", "disappointed", "empty">>
  @@ "disappointed" :> <<"sad", "hopeless", "let_down", "discouraged">>
  @@ "guilty" :> <<"ashamed", "regretful", "embarrassed", "remorseful">>
  @@ "jealous" :> <<"insecure", "envious", "angry", "inadequate">>
  @@ "embarrassed" :> <<"ashamed", "self-conscious", "awkward", "guilty">>
  @@ "afraid" :> <<"anxious", "scared", "worried", "panicked">>
  @@ "hopeless" :> <<"empty", "defeated", "sad", "despair">>
  @@ "energetic" :> <<"excited", "hyper", "motivated", "restless">>
  @@ "tired" :> <<"exhausted", "burnt_out", "sluggish", "drowsy">>
  @@ "restless" :> <<"anxious", "hyper", "bored", "antsy">>
  @@ "sluggish" :> <<"tired", "unmotivated", "low_energy", "mellow">>
  @@ "hyper" :> <<"excited", "energetic", "overstimulated", "restless">>
  @@ "burnt_out" :> <<"tired", "exhausted", "stressed", "depleted">>
  @@ "mellow" :> <<"calm", "relaxed", "peaceful", "content">>
  @@ "drowsy" :> <<"tired", "sleepy", "calm", "peaceful">>
  @@ "social" :> <<"playful", "happy", "outgoing", "friendly">>
  @@ "introverted" :> <<"contemplative", "peaceful", "alone", "reflective">>
  @@ "romantic" :> <<"loving", "affectionate", "passionate", "tender">>
  @@ "nostalgic" :> <<"bittersweet", "reflective", "sentimental", "wistful">>
  @@ "homesick" :> <<"nostalgic", "lonely", "longing", "missing">>
  @@ "misunderstood" :> <<"lonely", "frustrated", "isolated", "unheard">>
  @@ "betrayed" :> <<"hurt", "angry", "heartbroken", "vengeful">>
  @@ "supported" :> <<"grateful", "loved", "secure", "comforted">>
  @@ "contemplative" :> <<"introspective", "thoughtful", "philosophical", "reflective">>
  @@ "philosophical" :> <<"contemplative", "curious", "deep", "questioning">>
  @@ "curious" :> <<"interested", "engaged", "exploring", "learning">>
  @@ "confused" :> <<"uncertain", "lost", "overwhelmed", "unclear">>
  @@ "stuck" :> <<"frustrated", "stagnant", "trapped", "blocked">>
  @@ "purposeful" :> <<"motivated", "driven", "focused", "meaningful">>
  @@ "empty" :> <<"numb", "hollow", "sad", "unfulfilled">>
  @@ "overwhelmed" :> <<"stressed", "anxious", "drowning", "too_much">>
  @@ "bittersweet" :> <<"nostalgic", "mixed", "poignant", "emotional">>
  @@ "numb" :> <<"empty", "disconnected", "detached", "apathetic">>
  @@ "vengeful" :> <<"angry", "betrayed", "seeking_justice", "hurt">>
  @@ "rebellious" :> <<"defiant", "independent", "free", "bold">>
  @@ "vulnerable" :> <<"exposed", "sensitive", "open", "raw">>
  @@ "bored" :> <<"understimulated", "restless", "need_engagement", "uninterested">>

MOOD_OPPOSITES_SRC ==
     "sad" :> "happy"
  @@ "angry" :> "calm"
  @@ "anxious" :> "peaceful"
  @@ "stressed" :> "relaxed"
  @@ "tired" :> "energetic"
  @@ "lonely" :> "social"
  @@ "hopeless" :> "inspired"
  @@ "confused" :> "clear"
  @@ "stuck" :> "flowing"
  @@ "empty" :> "fulfilled"
  @@ "bored" :> "engaged"
  @@ "sluggish" :> "energetic"
  @@ "overwhelmed" :> "calm"
  @@ "numb" :> "feeling"
  @@ "afraid" :> "confident"

\* ------------------------------------------------------------------------
\* Lookups (mood_mappings.py, "Helper Functions")
\* ------------------------------------------------------------------------
VARIABLES
  MOOD_MAPPINGS,      \* the module global: mood key -> profile dict
  MOOD_SIMILARITIES,  \* the module global: mood key -> list of related moods
  MOOD_OPPOSITES,     \* the module global: mood key -> opposite mood
  call,               \* the library call being made: its function and argument
  pc,                 \* "idle", "called" or "returned"
  result,             \* the value the call returned, as the caller holds it
  alias,              \* which profile's list objects the returned dict shares
  mutations,          \* how many times the caller has mutated a returned value
  contexts,           \* MoodMatchAgent.contexts: context id -> history
  tasks,              \* the process_messages calls: their locals and position
  frame               \* the locals of the running service call and what it sent out

libvars == <<MOOD_MAPPINGS, MOOD_SIMILARITIES, MOOD_OPPOSITES, call, pc, result, alias,
             mutations>>
agentvars == <<contexts, tasks>>

Labels == {LabelPool[i] : i \in 1..Min(NumLabels, Len(LabelPool))}
MergeLabels == {LabelPool[i] : i \in 1..Min(NumMergeLabels, Len(LabelPool))}

InputWords == {strip(lower(CHARS[LabelPool[i]])) : i \in 1..Len(LabelPool)}
                \cup {CHARS[k] : k \in DOMAIN MOOD_MAPPINGS_SRC}
                \cup {replace(strip(lower(CHARS[MoodPool[i]])), " ", "_") :
                        i \in 1..Len(MoodPool)}

\* SequenceMatcher(a = x, b = word) matching sizes of the taxonomy keys
\* against the input words, computed once
MATCHING ==
  [x \in DOMAIN MOOD_MAPPINGS_SRC |->
     [w \in InputWords |->
        matching_size(CHARS[x], w, 0, Len(CHARS[x]), 0, Len(w))]]

matches(x, word) == MATCHING[x][word]

\* SequenceMatcher.ratio() >= cutoff10 / 10, where ratio = 2.0 * matches / length
ratio_ge(x, word, cutoff10) ==
  IF Len(CHARS[x]) + Len(word) = 0 THEN 10 >= cutoff10
  ELSE 2 * matches(x, word) * 10 >= cutoff10 * (Len(CHARS[x]) + Len(word))

\* (ratio(x), x) > (ratio(y), y) against the same word, mx and my being the
\* matching sizes of x and y
greater(x, y, mx, my, word) ==
  \/ mx * (Len(CHARS[y]) + Len(word)) > my * (Len(CHARS[x]) + Len(word))
  \/ /\ mx * (Len(CHARS[y]) + Len(word)) = my * (Len(CHARS[x]) + Len(word))
     /\ str_gt(CHARS[x], CHARS[y])

\* heapq.nlargest(1, close): the greatest (ratio, string)
nlargest(close, word) ==
  IF close = {} THEN <<>>
  ELSE <<CHOOSE x \in close :
           \A y \in close \ {x} : greater(x, y, matches(x, word), matches(y, word), word)>>

\* difflib.get_close_matches(word, possibilities, n=1, cutoff)
get_close_matches(word, possibilities, cutoff10) ==
  nlargest({x \in possibilities : ratio_ge(x, word, cutoff10)}, word)

NO_MATCH == ""

\* the key among keys that spells the string s
key_of(keys, s) ==
  IF \E k \in keys : CHARS[k] = s THEN CHOOSE k \in keys : CHARS[k] = s ELSE NO_MATCH

\* the exact match only
exact_only(exact, close_matches) == exact

\* "exact match, else the close match": the key the lookup uses
exact_or_close(exact, close_matches) ==
  IF exact # NO_MATCH THEN exact
  ELSE IF close_matches # <<>> THEN close_matches[1]
  ELSE NO_MATCH

lookup_key(keys, mood_lower, cutoff10) ==
  exact_or_close(key_of(keys, mood_lower), get_close_matches(mood_lower, keys, cutoff10))

\* the key whose profile get_mood_mapping(mood) returns
matched_mood(mood) == lookup_key(DOMAIN MOOD_MAPPINGS, strip(lower(mood)), 6)

\* MOOD_MAPPINGS[key].copy(), or None
mapping_copy(key) == IF key # NO_MATCH THEN MOOD_MAPPINGS[key] ELSE None

get_mood_mapping(mood) == mapping_copy(matched_mood(mood))

\* MOOD_SIMILARITIES[key].copy(), or []
similar_copy(key) == IF key # NO_MATCH THEN MOOD_SIMILARITIES[key] ELSE <<>>

find_similar_moods(mood) ==
  similar_copy(lookup_key(DOMAIN MOOD_SIMILARITIES, strip(lower(mood)), 7))

PyStr(s) == [str |-> s]

\* the matched key in place of its entry
opposite_key(key) == IF key # NO_MATCH THEN PyStr(key) ELSE None

opposite_at(key) == IF key # NO_MATCH THEN PyStr(MOOD_OPPOSITES[key]) ELSE None

get_opposite_mood(mood) ==
  opposite_at(lookup_key(DOMAIN MOOD_OPPOSITES, strip(lower(mood)), 8))

\* the local dict of get_mood_category, in insertion order
categories ==
  << [category |-> "positive", mood_list |->
        <<"happy", "excited", "grateful", "peaceful", "confident",
          "inspired", "playful", "content", "loving", "proud">>],
     [category |-> "negative", mood_list |->
        <<"sad", "anxious", "stressed", "angry", "lonely", "heartbroken",
          "disappointed", "guilty", "jealous", "embarrassed", "afraid", "hopeless">>],
     [category |-> "energy", mood_list |->
        <<"energetic", "tired", "restless", "sluggish", "hyper",
          "burnt_out", "mellow", "drowsy">>],
     [category |-> "social", mood_list |->
        <<"social", "introverted", "romantic", "nostalgic", "homesick",
          "misunderstood", "betrayed", "supported">>],
     [category |-> "existential", mood_list |->
        <<"contemplative", "philosophical", "curious", "confused",
          "stuck", "purposeful", "empty", "overwhelmed">>],
     [category |-> "complex", mood_list |->
        <<"bittersweet", "numb", "vengeful", "rebellious", "vulnerable", "bored">>] >>

\* cutoff (in tenths) of the re-check of get_mood_category
category_cutoff == 8

\* the category that comes first in the dict, whatever cats
first_of_all_categories(cats) == categories[1].category

\* the first category, in dict order, of those in cats
first_category(cats) == categories[SetMin(cats)].category

\* exact: the categories listing mood_lower; mapping: get_mood_mapping(mood_lower);
\* fuzzy: the categories with a known mood close to mood_lower
category_from(exact, mapping, fuzzy) ==
  IF exact # {} THEN first_category(exact)
  ELSE IF Truthy(mapping) /\ fuzzy # {} THEN first_category(fuzzy)
  ELSE "unknown"

category_of_lower(mood_lower) ==
  category_from(
    {c \in 1..Len(categories) :
       \E i \in 1..Len(categories[c].mood_list) :
          CHARS[categories[c].mood_list[i]] = mood_lower},
    get_mood_mapping(mood_lower),
    {c \in 1..Len(categories) :
       \E i \in 1..Len(categories[c].mood_list) :
          get_close_matches(mood_lower, {categories[c].mood_list[i]},
                            category_cutoff) # <<>>})

get_mood_category(mood) == category_of_lower(strip(lower(mood)))

\* ------------------------------------------------------------------------
\* merge_mood_mappings
\* ------------------------------------------------------------------------
LIST_FIELDS == {"music_genres", "music_vibe", "music_keywords", "movie_genres",
                "movie_themes", "movie_keywords", "book_genres", "book_themes",
                "book_keywords", "avoid_themes"}

energy_map == [very_low |-> 1, low |-> 2, medium |-> 3, high |-> 4, very_high |-> 5]
reverse_energy_map == <<"very_low", "low", "medium", "high", "very_high">>

\* round() as if it rounded a tie upwards
round_half_up(num, den) == (2 * num + den) \div (2 * den)

\* Python 3 round(num / den): to the nearest integer, a tie to the even one
round(num, den) ==
  IF 2 * (num % den) < den THEN num \div den
  ELSE IF 2 * (num % den) > den THEN (num \div den) + 1
  ELSE IF (num \div den) % 2 = 0 THEN num \div den ELSE (num \div den) + 1

\* mappings.append(mapping) under "if mapping"
appended(mapping) == IF Truthy(mapping) THEN <<mapping>> ELSE <<>>

\* the mappings of the moods that resolve, in input order
RECURSIVE valid_mappings(_)
valid_mappings(moods) ==
  IF moods = <<>> THEN <<>>
  ELSE appended(get_mood_mapping(moods[1])) \o valid_mappings(Tail(moods))

\* the primary taken from the other end of the list
primary_mapping_last(mappings) == mappings[Len(mappings)]

\* primary = mappings[0]
primary_mapping(mappings) == mappings[1]

\* the division evaluated before the test of i
weight_raises_eagerly(i, n) == n - 1 = 0

\* the conditional expression evaluates 0.4 / (len(mappings) - 1) only for i > 0
weight_raises(i, n) == i # 0 /\ n - 1 = 0

\* only the primary is pooled
repetitions_primary_only(i, n) == IF i = 0 THEN 6 ELSE 0

\* max(1, int(weight * 10)) with weight = 0.6 if i == 0 else 0.4 / (n - 1)
repetitions(i, n) == IF i = 0 THEN Max(1, 6) ELSE Max(1, 4 \div (n - 1))

\* the mappings pooled last to first
RECURSIVE collect_reversed(_, _, _, _)
collect_reversed(mappings, field, weighted, i) ==
  IF i > Len(mappings) THEN <<>>
  ELSE collect_reversed(mappings, field, weighted, i + 1)
       \o Repeat(Get(mappings[i], field, <<>>),
                 IF weighted THEN repetitions(i - 1, Len(mappings)) ELSE 1)

\* all_<field>: the lists of the mappings, each extended `repetitions` times
\* (avoid_themes: once)
RECURSIVE collect(_, _, _, _)
collect(mappings, field, weighted, i) ==
  IF i > Len(mappings) THEN <<>>
  ELSE Repeat(Get(mappings[i], field, <<>>),
              IF weighted THEN repetitions(i - 1, Len(mappings)) ELSE 1)
       \o collect(mappings, field, weighted, i + 1)

\* list(dict.fromkeys(all_<field>))[:bound]
\* the pooled list, deduplicated but not cut to its bound
merged_list_uncut(mappings, field, weighted, bound) ==
  fromkeys(collect(mappings, field, weighted, 1))

merged_list(mappings, field, weighted, bound) ==
  Take(fromkeys(collect(mappings, field, weighted, 1)), bound)

energy_levels(mappings) ==
  [i \in 1..Len(mappings) |-> Get(mappings[i], "music_energy", "medium")]

\* sum(energy_map.get(e, 3) for e in energy_levels)
energy_sum(levels) ==
  Sum([i \in 1..Len(levels) |-> Get(energy_map, levels[i], 3)])

merged_energy(mappings) ==
  reverse_energy_map[round(energy_sum(energy_levels(mappings)), Len(mappings))]

\* the merged dict built from the primary and the pooled lists
merged(mappings, primary) ==
  [music_genres   |-> merged_list(mappings, "music_genres", TRUE, 8),
   music_energy   |-> merged_energy(mappings),
   music_vibe     |-> merged_list(mappings, "music_vibe", TRUE, 5),
   music_keywords |-> merged_list(mappings, "music_keywords", TRUE, 6),
   movie_genres   |-> merged_list(mappings, "movie_genres", TRUE, 4),
   movie_tone     |-> Get(primary, "movie_tone", "balanced"),
   movie_themes   |-> merged_list(mappings, "movie_themes", TRUE, 6),
   movie_keywords |-> merged_list(mappings, "movie_keywords", TRUE, 5),
   book_genres    |-> merged_list(mappings, "book_genres", TRUE, 4),
   book_themes    |-> merged_list(mappings, "book_themes", TRUE, 6),
   book_pacing    |-> Get(primary, "book_pacing", "moderate"),
   book_depth     |-> Get(primary, "book_depth", "medium"),
   book_keywords  |-> merged_list(mappings, "book_keywords", TRUE, 5),
   avoid_themes   |-> merged_list(mappings, "avoid_themes", FALSE, 5),
   recommendation_strategy |-> Get(primary, "recommendation_strategy", "match")]

\* the part of merge_mood_mappings after the mappings are collected
merge_valid(mappings) ==
  IF mappings = <<>> THEN EmptyDict
  ELSE IF \E i \in 1..Len(mappings) : weight_raises(i - 1, Len(mappings))
    THEN Raised("ZeroDivisionError")
  ELSE merged(mappings, primary_mapping(mappings))

\* "calm" whatever the moods
single_mood_calm(moods) == CHARS["calm"]

\* the single mood the short-circuits look up: "calm" for no mood
single_mood(moods) == IF moods = <<>> THEN CHARS["calm"] ELSE moods[1]

merge_mood_mappings(moods) ==
  IF Len(moods) <= 1 THEN Or(get_mood_mapping(single_mood(moods)), EmptyDict)
  ELSE merge_valid(valid_mappings(moods))

\* ------------------------------------------------------------------------
\* The library calls
\* ------------------------------------------------------------------------
chars_of(moods) == [i \in 1..Len(moods) |-> CHARS[moods[i]]]

LookupCalls ==
  {[fn |-> f, arg |-> m] :
     f \in {"get_mood_mapping", "find_similar_moods", "get_mood_category",
            "get_opposite_mood"},
     m \in Labels}
MergeCalls ==
  {[fn |-> "merge_mood_mappings", arg |-> ms] : ms \in ListsUpTo(MergeLabels, MaxMoods)}

\* dict.copy() is shallow: the copy of the profile of `key` shares the
\* profile's list objects; list.copy() and the merged dict share nothing
shares(key) == [key |-> key, fields |-> IF key = NO_MATCH THEN {} ELSE LIST_FIELDS]
no_alias == shares(NO_MATCH)

\* the profile whose copy merge_mood_mappings returns, if it returns one
merge_alias(moods) ==
  IF Len(moods) <= 1 THEN matched_mood(single_mood(moods)) ELSE NO_MATCH

call_get_mood_mapping ==
  /\ pc = "called" /\ call.fn = "get_mood_mapping"
  /\ result' = get_mood_mapping(CHARS[call.arg])
  /\ alias' = shares(matched_mood(CHARS[call.arg]))
  /\ pc' = "returned"
  /\ UNCHANGED <<MOOD_MAPPINGS, MOOD_SIMILARITIES, MOOD_OPPOSITES, call, mutations>>
  /\ UNCHANGED <<agentvars, frame>>

call_find_similar_moods ==
  /\ pc = "called" /\ call.fn = "find_similar_moods"
  /\ result' = find_similar_moods(CHARS[call.arg])
  /\ alias' = no_alias
  /\ pc' = "returned"
  /\ UNCHANGED <<MOOD_MAPPINGS, MOOD_SIMILARITIES, MOOD_OPPOSITES, call, mutations>>
  /\ UNCHANGED <<agentvars, frame>>

call_get_mood_category ==
  /\ pc = "called" /\ call.fn = "get_mood_category"
  /\ result' = get_mood_category(CHARS[call.arg])
  /\ alias' = no_alias
  /\ pc' = "returned"
  /\ UNCHANGED <<MOOD_MAPPINGS, MOOD_SIMILARITIES, MOOD_OPPOSITES, call, mutations>>
  /\ UNCHANGED <<agentvars, frame>>

call_get_opposite_mood ==
  /\ pc = "called" /\ call.fn = "get_opposite_mood"
  /\ result' = get_opposite_mood(CHARS[call.arg])
  /\ alias' = no_alias
  /\ pc' = "returned"
  /\ UNCHANGED <<MOOD_MAPPINGS, MOOD_SIMILARITIES, MOOD_OPPOSITES, call, mutations>>
  /\ UNCHANGED <<agentvars, frame>>

call_merge_mood_mappings ==
  /\ pc = "called" /\ call.fn = "merge_mood_mappings"
  /\ result' = merge_mood_mappings(chars_of(call.arg))
  /\ alias' = shares(merge_alias(chars_of(call.arg)))
  /\ pc' = "returned"
  /\ UNCHANGED <<MOOD_MAPPINGS, MOOD_SIMILARITIES, MOOD_OPPOSITES, call, mutations>>
  /\ UNCHANGED <<agentvars, frame>>

LibInit ==
  /\ MOOD_MAPPINGS = MOOD_MAPPINGS_SRC
  /\ MOOD_SIMILARITIES = MOOD_SIMILARITIES_SRC
  /\ MOOD_OPPOSITES = MOOD_OPPOSITES_SRC
  /\ result = None
  /\ alias = no_alias
  /\ mutations = 0

\* the agent before any call of process_messages
AgentInit ==
  /\ contexts = EmptyDict
  /\ tasks = [c \in 1..MaxCalls |-> [pc |-> "idle"]]

vars == <<libvars, agentvars, frame>>

\* one call of a library function on the taxonomy as loaded
Init ==
  /\ LibInit
  /\ frame = EmptyDict
  /\ AgentInit
  /\ call \in LookupCalls \cup MergeCalls
  /\ pc = "called"

Next ==
  \/ call_get_mood_mapping
  \/ call_find_similar_moods
  \/ call_get_mood_category
  \/ call_get_opposite_mood
  \/ call_merge_mood_mappings

Spec == Init /\ [][Next]_vars

Returned(fn) == pc = "returned" /\ call.fn = fn

\* ------------------------------------------------------------------------
\* One call of a library function on every key of the taxonomy, as spelled
\* in the taxonomy and in another case with whitespace around it
\* ------------------------------------------------------------------------
KeySpellings == DOMAIN KEY_VARIANTS \cup UNION {KEY_VARIANTS[k] : k \in DOMAIN KEY_VARIANTS}

KeyCalls ==
  {[fn |-> f, arg |-> m] :
     f \in {"get_mood_mapping", "find_similar_moods", "get_mood_category",
            "get_opposite_mood"},
     m \in KeySpellings}
  \cup {[fn |-> "merge_mood_mappings", arg |-> <<m>>] : m \in KeySpellings}

InitKeys ==
  /\ LibInit
  /\ frame = EmptyDict
  /\ AgentInit
  /\ call \in KeyCalls
  /\ pc = "called"

SpecKeys == InitKeys /\ [][Next]_vars

\* ------------------------------------------------------------------------
\* A caller that keeps calling the library and mutates what it got back
\* ------------------------------------------------------------------------
AliasLabels == {LabelPool[i] : i \in 1..Min(NumAliasLabels, Len(LabelPool))}

AliasCalls ==
  {[fn |-> f, arg |-> m] :
     f \in {"get_mood_mapping", "find_similar_moods", "get_opposite_mood"},
     m \in AliasLabels}
  \cup {[fn |-> "merge_mood_mappings", arg |-> ms] :
          ms \in ListsUpTo(AliasLabels, MaxAliasMoods)}

\* what the caller appends or assigns
NewItems == {"x"}

no_call == [fn |-> "none", arg |-> ""]

invoke ==
  /\ pc \in {"idle", "returned"}
  /\ \E c \in AliasCalls : call' = c
  /\ pc' = "called"
  /\ UNCHANGED <<MOOD_MAPPINGS, MOOD_SIMILARITIES, MOOD_OPPOSITES, result, alias, mutations>>
  /\ UNCHANGED <<agentvars, frame>>

ReturnedDict ==
  /\ pc = "returned"
  /\ call.fn \in {"get_mood_mapping", "merge_mood_mappings"}

\* the object MOOD_MAPPINGS[key][field] after list.append(item) on it
appended_in_place(key, field, item) ==
  [MOOD_MAPPINGS EXCEPT ![key][field] = Append(@, item)]

\* returned[field].append(item): the list object is the taxonomy's own when
\* the returned dict is a shallow copy of a profile
caller_appends_to_field ==
  /\ ReturnedDict /\ mutations < MaxMutations
  /\ \E field \in LIST_FIELDS \cap DOMAIN result, item \in NewItems :
       /\ result' = [result EXCEPT ![field] = Append(@, item)]
       /\ MOOD_MAPPINGS' = IF field \in alias.fields
                             THEN appended_in_place(alias.key, field, item)
                             ELSE MOOD_MAPPINGS
  /\ mutations' = mutations + 1
  /\ UNCHANGED <<MOOD_SIMILARITIES, MOOD_OPPOSITES, call, pc, alias>>
  /\ UNCHANGED <<agentvars, frame>>

\* returned[field] = [item]: rebinds the key of the caller's own dict
caller_assigns_field ==
  /\ ReturnedDict /\ mutations < MaxMutations
  /\ \E field \in LIST_FIELDS \cap DOMAIN result, item \in NewItems :
       /\ result' = [result EXCEPT ![field] = <<item>>]
       /\ alias' = [alias EXCEPT !.fields = @ \ {field}]
  /\ mutations' = mutations + 1
  /\ UNCHANGED <<MOOD_MAPPINGS, MOOD_SIMILARITIES, MOOD_OPPOSITES, call, pc>>
  /\ UNCHANGED <<agentvars, frame>>

\* returned.append(item) on the list find_similar_moods returned (a copy)
caller_appends_to_similar ==
  /\ pc = "returned" /\ call.fn = "find_similar_moods"
  /\ mutations < MaxMutations
  /\ \E item \in NewItems : result' = Append(result, item)
  /\ mutations' = mutations + 1
  /\ UNCHANGED <<MOOD_MAPPINGS, MOOD_SIMILARITIES, MOOD_OPPOSITES, call, pc, alias>>
  /\ UNCHANGED <<agentvars, frame>>

InitAlias ==
  /\ LibInit
  /\ frame = EmptyDict
  /\ AgentInit
  /\ call = no_call
  /\ pc = "idle"

NextAlias ==
  \/ invoke
  \/ call_get_mood_mapping
  \/ call_find_similar_moods
  \/ call_get_opposite_mood
  \/ call_merge_mood_mappings
  \/ caller_appends_to_field
  \/ caller_assigns_field
  \/ caller_appends_to_similar

SpecAlias == InitAlias /\ [][NextAlias]_vars

\* ------------------------------------------------------------------------
\* MoodMatchAgent.process_messages (src/agents/moodmatch_agent.py)
\* ------------------------------------------------------------------------
CallIds == 1..MaxCalls

TextPart(text) == [kind |-> "text", text |-> text]
A2AMessage(role, text) ==
  [role |-> role, parts |-> <<TextPart(text)>>, contextId |-> None, taskId |-> None]

\* A2AMessage(role="agent", parts=[...], messageId=str(uuid4()),
\*            contextId=context_id, taskId=task_id)
AgentMessage(text, message_id, context_id, task_id) ==
  [role |-> "agent", parts |-> <<TextPart(text)>>, messageId |-> message_id,
   contextId |-> PyStr(context_id), taskId |-> PyStr(task_id)]

\* the message lists a caller sends
MessageLists ==
  { <<A2AMessage("agent", "hello")>>,
    <<A2AMessage("user", "")>>,
    <<A2AMessage("user", "i feel sad")>>,
    <<A2AMessage("user", "rough day"), A2AMessage("agent", "hello"),
      A2AMessage("user", "cheer me up")>> }

\* the context id and task id a caller passes; None asks for a generated one
CallerIds ==
  { [context_id |-> None, task_id |-> None],
    [context_id |-> PyStr("ctx-a"), task_id |-> PyStr("task-a")] }

\* str(uuid4()) for the context id and for the task id of call c: distinct
\* from every other id
context_uuid4(c) == <<"context-uuid-1", "context-uuid-2", "context-uuid-3">>[c]
task_uuid4(c) == <<"task-uuid-1", "task-uuid-2", "task-uuid-3">>[c]
message_uuid4(c) == <<"message-uuid-1", "message-uuid-2", "message-uuid-3">>[c]

\* what the mood analyzer returns when it does not raise
MoodAnalyses == {[primary_mood |-> "sad", intensity |-> 8, immediate_need |-> "process"]}

\* what a media service returns when it finds something
Recommendation(medium) == [medium |-> medium, title |-> "title"]

\* the outcomes of service.get_recommendation
ServiceOutcomes(medium) == {Recommendation(medium), None, Raised("Exception")}

Pending == [pending |-> TRUE]

RECURSIVE text_parts(_)
text_parts(messages) ==
  IF messages = <<>> THEN <<>>
  ELSE LET message == Head(messages)
           own == IF message.role = "user"
                    THEN SelectSeq(message.parts,
                                   LAMBDA part : part.kind = "text" /\ part.text # "")
                    ELSE <<>>
       IN  [i \in 1..Len(own) |-> own[i].text] \o text_parts(Tail(messages))

\* " ".join(text_parts), kept as the list of joined texts
extract_user_message(messages) == text_parts(messages)

\* try: return await service.get_recommendation(...) except Exception: return None
get_safe(outcome) == IF IsRaised(outcome) THEN None ELSE outcome

\* x if not isinstance(x, Exception) else None
not_exception(x) == IF IsRaised(x) THEN None ELSE x

\* all([music, movie, book]) in place of any
all_recommendations(music, movie, book) ==
  Truthy(music) /\ Truthy(movie) /\ Truthy(book)

\* any([music, movie, book])
any_recommendation(music, movie, book) ==
  Truthy(music) \/ Truthy(movie) \/ Truthy(book)

build_response_message(mood_analysis, music, movie, book, context_id, task_id, message_id) ==
  AgentMessage([mood |-> mood_analysis.primary_mood,
                media |-> SelectSeq(<<music, movie, book>>, Truthy)],
               message_id, context_id, task_id)

\* an artifact whether or not there is a recommendation
artifact_always(recommendation, name) == <<name>>

\* if recommendation: artifacts.append(Artifact(name=name, ...))
artifact_if(recommendation, name) ==
  IF Truthy(recommendation) THEN <<name>> ELSE <<>>

\* the names of the artifacts, in order
create_artifacts(music, movie, book) ==
  <<"mood_analysis">> \o artifact_if(music, "music_recommendation")
    \o artifact_if(movie, "movie_recommendation")
    \o artifact_if(book, "book_recommendation")

build_history(user_messages, agent_message) ==
  Append(SelectSeq(user_messages, LAMBDA msg : msg.role = "user"), agent_message)

TaskResult(task_id, context_id, state, artifacts, history) ==
  [taskId |-> task_id, contextId |-> context_id, status |-> [state |-> state],
   artifacts |-> artifacts, history |-> history]

\* an error result that still lists the mood analysis artifact
create_error_result_with_artifact(context_id, task_id, message, message_id) ==
  TaskResult(task_id, context_id, "failed", <<"mood_analysis">>,
             <<AgentMessage(message, message_id, context_id, task_id)>>)

create_error_result(context_id, task_id, message, message_id) ==
  TaskResult(task_id, context_id, "failed", <<>>,
             <<AgentMessage(message, message_id, context_id, task_id)>>)

\* contexts.setdefault(context_id, []).extend(history)
stored_extending(context_id, history) ==
  [k \in DOMAIN contexts \cup {context_id} |->
     IF k = context_id
       THEN (IF k \in DOMAIN contexts THEN contexts[k] ELSE <<>>) \o history
       ELSE contexts[k]]

\* contexts[context_id] = history
stored(context_id, history) ==
  [k \in DOMAIN contexts \cup {context_id} |->
     IF k = context_id THEN history ELSE contexts[k]]

\* lines 180-198: ids, the user text, the early return when there is none
started(c, ids, messages, context_id, task_id, text) ==
  IF text = <<>>
    THEN [pc |-> "done", messages |-> messages, context_id |-> context_id,
          task_id |-> task_id, caller |-> ids,
          result |-> create_error_result(context_id, task_id,
                                         "No user message found to process",
                                         message_uuid4(c))]
    ELSE [pc |-> "analyze_mood", messages |-> messages, context_id |-> context_id,
          task_id |-> task_id, caller |-> ids, user_message_text |-> text]

\* lines 157-198 for the given arguments
received(c, messages, ids) ==
  /\ tasks' = [tasks EXCEPT ![c] =
                 started(c, ids, messages,
                         IF Truthy(ids.context_id) THEN ids.context_id.str
                                                   ELSE context_uuid4(c),
                         IF Truthy(ids.task_id) THEN ids.task_id.str
                                                ELSE task_uuid4(c),
                         extract_user_message(messages))]
  /\ UNCHANGED contexts
  /\ UNCHANGED <<libvars, frame>>

process_messages(c) ==
  /\ tasks[c].pc = "idle"
  /\ \E messages \in MessageLists, ids \in CallerIds : received(c, messages, ids)

\* lines 200-215: the analyzer answers or raises; on an answer the three
\* safe coroutines are handed to gather together
analyzed(task, c, outcome) ==
  IF IsRaised(outcome)
    THEN [pc |-> "done", messages |-> task.messages, context_id |-> task.context_id,
          task_id |-> task.task_id, caller |-> task.caller,
          result |-> create_error_result(task.context_id, task.task_id,
                                         "Failed to analyze mood", message_uuid4(c))]
    ELSE [pc |-> "gather", messages |-> task.messages, context_id |-> task.context_id,
          task_id |-> task.task_id, caller |-> task.caller, mood_analysis |-> outcome,
          outcome |-> [music |-> Pending, movie |-> Pending, book |-> Pending],
          music |-> Pending, movie |-> Pending, book |-> Pending]

analyze_mood(c) ==
  /\ tasks[c].pc = "analyze_mood"
  /\ \E outcome \in MoodAnalyses \cup {Raised("Exception")} :
       tasks' = [tasks EXCEPT ![c] = analyzed(@, c, outcome)]
  /\ UNCHANGED contexts
  /\ UNCHANGED <<libvars, frame>>

get_music_safe(c) ==
  /\ tasks[c].pc = "gather" /\ tasks[c].music = Pending
  /\ \E outcome \in ServiceOutcomes("music") :
       tasks' = [tasks EXCEPT ![c].music = get_safe(outcome),
                              ![c].outcome.music = outcome]
  /\ UNCHANGED contexts
  /\ UNCHANGED <<libvars, frame>>

get_movie_safe(c) ==
  /\ tasks[c].pc = "gather" /\ tasks[c].movie = Pending
  /\ \E outcome \in ServiceOutcomes("movie") :
       tasks' = [tasks EXCEPT ![c].movie = get_safe(outcome),
                              ![c].outcome.movie = outcome]
  /\ UNCHANGED contexts
  /\ UNCHANGED <<libvars, frame>>

get_book_safe(c) ==
  /\ tasks[c].pc = "gather" /\ tasks[c].book = Pending
  /\ \E outcome \in ServiceOutcomes("book") :
       tasks' = [tasks EXCEPT ![c].book = get_safe(outcome),
                              ![c].outcome.book = outcome]
  /\ UNCHANGED contexts
  /\ UNCHANGED <<libvars, frame>>

\* lines 240-275
completed(task, music, movie, book, history) ==
  [pc |-> "done", messages |-> task.messages, context_id |-> task.context_id,
   task_id |-> task.task_id, caller |-> task.caller, mood_analysis |-> task.mood_analysis, outcome |-> task.outcome,
   music |-> music, movie |-> movie, book |-> book,
   result |-> TaskResult(task.task_id, task.context_id, "completed",
                         create_artifacts(music, movie, book), history)]

\* lines 233-238
no_recommendations(task, c, music, movie, book) ==
  [pc |-> "done", messages |-> task.messages, context_id |-> task.context_id,
   task_id |-> task.task_id, caller |-> task.caller, mood_analysis |-> task.mood_analysis, outcome |-> task.outcome,
   music |-> music, movie |-> movie, book |-> book,
   result |-> create_error_result(task.context_id, task.task_id,
                                  "Unable to generate recommendations at this time",
                                  message_uuid4(c))]

\* lines 217-275: gather has all three results
gathered(c, task, music, movie, book, history) ==
  IF any_recommendation(music, movie, book)
    THEN /\ tasks' = [tasks EXCEPT ![c] = completed(task, music, movie, book, history)]
         /\ contexts' = stored(task.context_id, history)
    ELSE /\ tasks' = [tasks EXCEPT ![c] = no_recommendations(task, c, music, movie, book)]
         /\ UNCHANGED contexts

gather_returns(c) ==
  /\ tasks[c].pc = "gather"
  /\ Pending \notin {tasks[c].music, tasks[c].movie, tasks[c].book}
  /\ gathered(c, tasks[c], not_exception(tasks[c].music), not_exception(tasks[c].movie),
              not_exception(tasks[c].book),
              build_history(tasks[c].messages,
                            build_response_message(tasks[c].mood_analysis,
                                                   not_exception(tasks[c].music),
                                                   not_exception(tasks[c].movie),
                                                   not_exception(tasks[c].book),
                                                   tasks[c].context_id,
                                                   tasks[c].task_id,
                                                   message_uuid4(c))))
  /\ UNCHANGED <<libvars, frame>>

InitAgent ==
  /\ LibInit
  /\ frame = EmptyDict
  /\ AgentInit
  /\ call = no_call
  /\ pc = "idle"

NextAgent ==
  \/ \E c \in CallIds : process_messages(c)
  \/ \E c \in CallIds : analyze_mood(c)
  \/ \E c \in CallIds : get_music_safe(c)
  \/ \E c \in CallIds : get_movie_safe(c)
  \/ \E c \in CallIds : get_book_safe(c)
  \/ \E c \in CallIds : gather_returns(c)

SpecAgent == InitAgent /\ [][NextAgent]_vars

-----------------------------------------------------------------------------
\* Conversations: several process_messages calls on one agent, some of them
\* in the same context. The three searches of a call touch only their own
\* result, so asyncio.gather is taken as one step here.

ConversationCallIds == 1..MaxConversationCalls

\* the message lists of a conversation: each has user text
ConversationMessageLists ==
  {messages \in MessageLists : extract_user_message(messages) # <<>>}

\* what a search hands to gather: a recommendation or None
SearchResults(medium) == {get_safe(outcome) : outcome \in ServiceOutcomes(medium)}

converse(c) ==
  /\ tasks[c].pc = "idle"
  /\ \E messages \in ConversationMessageLists, ids \in CallerIds :
       received(c, messages, ids)

\* lines 217-275: the three safe coroutines run and gather returns
gather(c) ==
  /\ tasks[c].pc = "gather"
  /\ \E music \in SearchResults("music"), movie \in SearchResults("movie"),
        book \in SearchResults("book") :
       gathered(c,
                [tasks[c] EXCEPT !.outcome = [music |-> music, movie |-> movie,
                                              book |-> book],
                                 !.music = music, !.movie = movie, !.book = book],
                not_exception(music), not_exception(movie), not_exception(book),
                build_history(tasks[c].messages,
                              build_response_message(tasks[c].mood_analysis,
                                                     not_exception(music),
                                                     not_exception(movie),
                                                     not_exception(book),
                                                     tasks[c].context_id,
                                                     tasks[c].task_id,
                                                     message_uuid4(c))))
  /\ UNCHANGED <<libvars, frame>>

InitConversation ==
  /\ LibInit
  /\ frame = EmptyDict
  /\ contexts = EmptyDict
  /\ tasks = [c \in ConversationCallIds |-> [pc |-> "idle"]]
  /\ call = no_call
  /\ pc = "idle"

NextConversation ==
  \/ \E c \in ConversationCallIds : converse(c)
  \/ \E c \in ConversationCallIds : analyze_mood(c)
  \/ \E c \in ConversationCallIds : gather(c)

SpecConversation == InitConversation /\ [][NextConversation]_vars

\* ------------------------------------------------------------------------
\* MoodAnalysis (src/services/mood_analyzer.py): construction and validators
\* ------------------------------------------------------------------------
\* v.lower().strip().replace(" ", "_")
normalize_mood(v) == replace(strip(lower(v)), " ", "_")

\* no valid mood when nothing is close
closest_or_nothing(close_matches) ==
  IF close_matches # <<>> THEN close_matches[1] ELSE NO_MATCH

\* the closest valid mood, or "overwhelmed"
closest_or_default(close_matches) ==
  IF close_matches # <<>> THEN close_matches[1] ELSE "overwhelmed"

validated_mood(exact, close_matches) ==
  IF exact # NO_MATCH THEN exact ELSE closest_or_default(close_matches)

primary_of_normalized(normalized_v) ==
  validated_mood(key_of(VALID_MOODS, normalized_v),
                 get_close_matches(normalized_v, VALID_MOODS, 6))

validate_primary_mood(v) == primary_of_normalized(normalize_mood(v))

normalize_secondary_moods(v) == [i \in 1..Len(v) |-> normalize_mood(v[i])]

allowed == {"escape", "process", "uplift", "calm", "match", "channel"}

\* the lowercased need, or ValueError
validate_immediate_need(v) ==
  IF key_of(allowed, lower(v)) = NO_MATCH THEN Raised("ValueError")
  ELSE PyStr(key_of(allowed, lower(v)))

\* Field(..., ge=1, le=10)
valid_intensity(intensity) == 1 <= intensity /\ intensity <= 10

\* MoodAnalysis(primary_mood=..., intensity=..., immediate_need=..., secondary_moods=...)
MoodAnalysis(args, need) ==
  IF ~valid_intensity(args.intensity) \/ IsRaised(need) THEN Raised("ValidationError")
  ELSE [primary_mood |-> validate_primary_mood(CHARS[args.primary_mood]),
        intensity |-> args.intensity,
        immediate_need |-> need.str,
        secondary_moods |-> normalize_secondary_moods(chars_of(args.secondary_moods))]

PrimaryMoods == {MoodPool[i] : i \in 1..Min(NumMoods, Len(MoodPool))}
SecondaryMoods == {MoodPool[i] : i \in 1..Min(NumSecondaryMoods, Len(MoodPool))}

AnalysisCalls ==
  {[fn |-> "MoodAnalysis",
    arg |-> [primary_mood |-> p, intensity |-> n, immediate_need |-> need,
             secondary_moods |-> sec]] :
     p \in PrimaryMoods, n \in {0, 1, 10, 11},
     need \in {"match", "Escape", "invalid_need"},
     sec \in ListsUpTo(SecondaryMoods, MaxSecondary)}

call_MoodAnalysis ==
  /\ pc = "called" /\ call.fn = "MoodAnalysis"
  /\ result' = MoodAnalysis(call.arg, validate_immediate_need(CHARS[call.arg.immediate_need]))
  /\ alias' = no_alias
  /\ pc' = "returned"
  /\ UNCHANGED <<MOOD_MAPPINGS, MOOD_SIMILARITIES, MOOD_OPPOSITES, call, mutations>>
  /\ UNCHANGED <<agentvars, frame>>

InitAnalysis ==
  /\ LibInit
  /\ frame = EmptyDict
  /\ AgentInit
  /\ call \in AnalysisCalls
  /\ pc = "called"

NextAnalysis == call_MoodAnalysis

SpecAnalysis == InitAnalysis /\ [][NextAnalysis]_vars

-----------------------------------------------------------------------------
\* MoodAnalyzer.analyze_mood and MoodAnalyzer.batch_analyze_moods

\* the messages a caller hands to the analyzer
AnalyzerMessages == {"", "   ", " \t\n", "i feel sad", "  rough day  "}
BatchMessages == <<"   ", "i feel sad", "cheer me up">>

\* what the language model can answer with, as the fields of a MoodAnalysis
ModelData ==
  [sad |-> [primary_mood |-> "SAD", intensity |-> 8, immediate_need |-> "process",
            secondary_moods |-> <<"lonely">>, music_preferences |-> EmptyDict],
   happy |-> [primary_mood |-> "happy", intensity |-> 3, immediate_need |-> "match",
              secondary_moods |-> <<>>,
              music_preferences |-> [energy_level |-> "high"]],
   out_of_range |-> [primary_mood |-> "calm", intensity |-> 11,
                     immediate_need |-> "calm", secondary_moods |-> <<>>,
                     music_preferences |-> EmptyDict]]

\* json.loads of the texts the model can answer with
JSON_TEXTS ==
     "{\"primary_mood\": \"SAD\", \"intensity\": 8}" :> ModelData.sad
  @@ "{\"primary_mood\": \"calm\", \"intensity\": 11}" :> ModelData.out_of_range

json_loads(text) ==
  IF text \in DOMAIN JSON_TEXTS THEN JSON_TEXTS[text] ELSE Raised("JSONDecodeError")

\* MoodAnalysis(**data)
construct(data) ==
  IF IsRaised(data) THEN data
  ELSE IF IsRaised(MoodAnalysis(data, validate_immediate_need(CHARS[data.immediate_need])))
    THEN Raised("ValidationError")
  ELSE [field \in DOMAIN MoodAnalysis(data, validate_immediate_need(CHARS[data.immediate_need]))
                 \cup {"music_preferences"} |->
          IF field = "music_preferences" THEN data.music_preferences
          ELSE MoodAnalysis(data, validate_immediate_need(CHARS[data.immediate_need]))[field]]

IsMoodAnalysis(v) == "primary_mood" \in DOMAIN v
IsStr(v) == DOMAIN v = {"str"}

\* what self.agent.run(full_prompt) returns or raises
AgentResults ==
  { [data |-> construct(ModelData.sad)],
    [data |-> construct(ModelData.happy)],
    [data |-> None, output |-> construct(ModelData.happy)],
    [output |-> PyStr("{\"primary_mood\": \"SAD\", \"intensity\": 8}")],
    [output |-> PyStr("{\"primary_mood\": \"calm\", \"intensity\": 11}")],
    [output |-> PyStr("You sound sad.")],
    [output |-> [int |-> 42]],
    EmptyDict,
    Raised("ConnectionError") }

\* lines 409-429: the MoodAnalysis of the result, or the exception raised on the way
extracted(run) ==
  IF IsRaised(run) THEN run
  ELSE IF "data" \in DOMAIN run /\ IsMoodAnalysis(run.data) THEN run.data
  ELSE IF "output" \in DOMAIN run
    THEN IF IsStr(run.output) THEN construct(json_loads(run.output.str))
         ELSE IF IsMoodAnalysis(run.output) THEN run.output
         ELSE Raised("ValueError")
  ELSE Raised("ValueError")

\* _default_music_preferences(mood, intensity)
default_music_preferences(intensity) ==
  [energy_level |-> IF intensity <= 3 THEN "low"
                    ELSE IF intensity <= 5 THEN "medium"
                    ELSE IF intensity <= 7 THEN "high" ELSE "very_high",
   preferred_genres |-> <<>>, vibe |-> <<>>, keywords |-> <<>>]

\* lines 431-436: if not mood_analysis.music_preferences: ... = defaults
post_processed(mood_analysis) ==
  IF mood_analysis.music_preferences = EmptyDict
    THEN [mood_analysis EXCEPT
            !.music_preferences = default_music_preferences(mood_analysis.intensity)]
    ELSE mood_analysis

\* lines 459-468: every exception of the try block is re-raised as RuntimeError
surfaced(mood_analysis) ==
  IF IsRaised(mood_analysis) THEN Raised("RuntimeError")
  ELSE post_processed(mood_analysis)

\* the empty string only
is_empty_string(user_message) == user_message = <<>>

\* not user_message or not user_message.strip()
is_blank(user_message) == user_message = <<>> \/ strip(user_message) = <<>>

\* analyze_mood up to its await: the guard, then the prompt handed to the agent
prompted(user_message, at_await) ==
  IF is_blank(user_message)
    THEN /\ pc' = pc
         /\ frame' = [frame EXCEPT !.returned = Append(@, Raised("ValueError"))]
    ELSE /\ pc' = at_await
         /\ frame' = [frame EXCEPT !.prompts = Append(@, strip(user_message))]

call_analyze_mood ==
  /\ pc = "called" /\ call.fn = "analyze_mood"
  /\ IF is_blank(CHARS[call.arg])
       THEN /\ result' = Raised("ValueError")
            /\ pc' = "returned"
            /\ frame' = frame
       ELSE /\ result' = result
            /\ pc' = "agent.run"
            /\ frame' = [frame EXCEPT !.prompts = Append(@, strip(CHARS[call.arg]))]
  /\ UNCHANGED <<MOOD_MAPPINGS, MOOD_SIMILARITIES, MOOD_OPPOSITES, call, alias, mutations>>
  /\ UNCHANGED agentvars

agent_run_returns ==
  /\ pc = "agent.run" /\ call.fn = "analyze_mood"
  /\ \E run \in AgentResults :
       /\ result' = surfaced(extracted(run))
       /\ frame' = [frame EXCEPT !.runs = Append(@, run)]
  /\ pc' = "returned"
  /\ UNCHANGED <<MOOD_MAPPINGS, MOOD_SIMILARITIES, MOOD_OPPOSITES, call, alias, mutations>>
  /\ UNCHANGED agentvars

\* the results emptied by a failure
kept_or_cleared(results, analysis) ==
  IF IsRaised(analysis) THEN <<>> ELSE Append(results, analysis)

\* try: results.append(await self.analyze_mood(message)) except Exception: continue
kept(results, analysis) ==
  IF IsRaised(analysis) THEN results ELSE Append(results, analysis)

\* the next message of the loop: analyze_mood runs up to its await, or raises
\* ValueError, which the loop swallows; after the last message the list is returned
batch_analyze_moods ==
  /\ pc = "called" /\ call.fn = "batch_analyze_moods"
  /\ IF Len(frame.returned) = Len(call.arg)
       THEN /\ result' = frame.results
            /\ pc' = "returned"
            /\ frame' = frame
       ELSE /\ result' = result
            /\ prompted(CHARS[call.arg[Len(frame.returned) + 1]], "agent.run")
  /\ UNCHANGED <<MOOD_MAPPINGS, MOOD_SIMILARITIES, MOOD_OPPOSITES, call, alias, mutations>>
  /\ UNCHANGED agentvars

\* the agent answers the message under analysis; the loop keeps the analysis
\* or swallows the RuntimeError and goes on
batch_agent_run_returns ==
  /\ pc = "agent.run" /\ call.fn = "batch_analyze_moods"
  /\ \E run \in AgentResults :
       frame' = [frame EXCEPT !.runs = Append(@, run),
                              !.returned = Append(@, surfaced(extracted(run))),
                              !.results = kept(@, surfaced(extracted(run)))]
  /\ pc' = "called"
  /\ UNCHANGED <<MOOD_MAPPINGS, MOOD_SIMILARITIES, MOOD_OPPOSITES, call, result, alias,
                 mutations>>
  /\ UNCHANGED agentvars

AnalyzerCalls ==
  {[fn |-> "analyze_mood", arg |-> message] : message \in AnalyzerMessages}
    \cup {[fn |-> "batch_analyze_moods", arg |-> messages] :
            messages \in ListsUpTo({BatchMessages[i] : i \in 1..Len(BatchMessages)},
                                   MaxBatch)}

InitAnalyzer ==
  /\ LibInit
  /\ AgentInit
  /\ call \in AnalyzerCalls
  /\ pc = "called"
  /\ frame = [prompts |-> <<>>, runs |-> <<>>, returned |-> <<>>, results |-> <<>>]

NextAnalyzer ==
  \/ call_analyze_mood
  \/ agent_run_returns
  \/ batch_analyze_moods
  \/ batch_agent_run_returns

SpecAnalyzer == InitAnalyzer /\ [][NextAnalyzer]_vars

-----------------------------------------------------------------------------
\* GoogleBooksService.get_recommendation

FALLBACK_BOOKS ==
  [happy |-> [title |-> "The Midnight Library", author |-> "Matt Haig",
              themes |-> <<"hope", "second chances", "happiness">>],
   sad |-> [title |-> "The Kite Runner", author |-> "Khaled Hosseini",
            themes |-> <<"loss", "redemption", "friendship">>],
   anxious |-> [title |-> "The Alchemist", author |-> "Paulo Coelho",
                themes |-> <<"journey", "destiny", "peace">>],
   calm |-> [title |-> "Walden", author |-> "Henry David Thoreau",
             themes |-> <<"nature", "simplicity", "reflection">>],
   motivated |-> [title |-> "Atomic Habits", author |-> "James Clear",
                  themes |-> <<"growth", "productivity", "success">>]]

\* the mood analyses a caller hands to the book service
BookMoods ==
  { [primary_mood |-> "sad", book_preferences |-> EmptyDict],
    [primary_mood |-> "bored", book_preferences |-> EmptyDict],
    [primary_mood |-> "happy",
     book_preferences |-> [preferred_genres |-> <<"fantasy", "memoir", "poetry">>,
                           themes |-> <<"hope", "loss", "home">>,
                           keywords |-> <<"uplifting">>]] }

PyInt(n) == [int |-> n]
PyList(lst) == [list |-> lst]

\* volumes of the Google Books API; averageRating is in tenths
Volumes ==
  [rated |-> [volumeInfo |-> [title |-> "Dune", authors |-> <<"Frank Herbert">>,
                              description |-> "A desert planet.",
                              averageRating |-> 42, ratingsCount |-> 100,
                              pageCount |-> PyInt(600)]],
   unrated |-> [volumeInfo |-> [title |-> "Quiet Days", authors |-> <<"A. Writer">>,
                                description |-> "A diary.",
                                previewLink |-> "https://books.google.com/p"]],
   poorly_rated |-> [volumeInfo |-> [title |-> "Meh", authors |-> <<"B. Writer">>,
                                     description |-> "A book.",
                                     averageRating |-> 30, ratingsCount |-> 10]],
   undescribed |-> [volumeInfo |-> [title |-> "Blank", authors |-> <<"C. Writer">>]],
   malformed |-> [volumeInfo |-> [title |-> "Odd", authors |-> <<"D. Writer">>,
                                  description |-> "An oddity.",
                                  pageCount |-> PyStr("many")]]]

\* what self.client.get(...) does: it raises, or answers with a status and a body
ApiResponses ==
  { Raised("ConnectError"),
    [status |-> 500],
    [status |-> 200, json |-> Raised("JSONDecodeError")],
    [status |-> 200, json |-> EmptyDict],
    [status |-> 200, json |-> [items |-> <<Volumes.unrated, Volumes.rated>>]],
    [status |-> 200, json |-> [items |-> <<Volumes.poorly_rated>>]],
    [status |-> 200, json |-> [items |-> <<Volumes.undescribed, Volumes.poorly_rated>>]],
    [status |-> 200, json |-> [items |-> <<Volumes.malformed>>]] }

\* _build_search_query, as the list of terms joined by " "
build_search_query(mood_analysis, broader) ==
  LET book_prefs == Or(mood_analysis.book_preferences, EmptyDict)
      genres == Get(book_prefs, "preferred_genres", <<>>)
      themes == Get(book_prefs, "themes", <<>>)
      keywords == Get(book_prefs, "keywords", <<>>)
      specific == Take(genres, 2) \o Take(themes, 2)
      query_parts ==
        IF broader THEN <<mood_analysis.primary_mood>> \o Take(genres, 1)
        ELSE IF Len(specific) < 4 THEN specific \o Take(keywords, 1) ELSE specific
  IN  IF Take(query_parts, 4) # <<>> THEN Take(query_parts, 4)
      ELSE <<mood_analysis.primary_mood>>

\* response.raise_for_status(); data = response.json(); data.get("items", [])
items_of(response) ==
  IF IsRaised(response) THEN response
  ELSE IF response.status >= 400 THEN Raised("HTTPStatusError")
  ELSE IF IsRaised(response.json) THEN response.json
  ELSE PyList(Get(response.json, "items", <<>>))

\* the checks of _filter_quality_books that skip a book
is_quality(item) ==
  LET volume_info == Get(item, "volumeInfo", EmptyDict)
  IN  /\ "title" \in DOMAIN volume_info
      /\ Get(volume_info, "authors", <<>>) # <<>>
      /\ "description" \in DOMAIN volume_info
      /\ ~("averageRating" \in DOMAIN volume_info /\ volume_info.averageRating < 35)

\* ten times the quality score
quality_score(item) ==
  LET volume_info == Get(item, "volumeInfo", EmptyDict)
  IN  Get(volume_info, "averageRating", 0) * 20
        + Min(Get(volume_info, "ratingsCount", 0), 500)
        + (IF "previewLink" \in DOMAIN volume_info THEN 100 ELSE 0)
        + (IF "pageCount" \in DOMAIN volume_info THEN 50 ELSE 0)

\* quality_books[0] after the stable sort by descending score, or None
best_book(items) ==
  LET quality == SelectSeq(items, is_quality)
      first_best == SetMin({i \in 1..Len(quality) :
                              \A j \in 1..Len(quality) :
                                 quality_score(quality[j]) <= quality_score(quality[i])})
  IN  IF quality = <<>> THEN None ELSE quality[first_best]

\* _create_recommendation: _calculate_reading_time divides the page count
create_recommendation(book_item) ==
  LET volume_info == Get(book_item, "volumeInfo", EmptyDict)
      pages == Get(volume_info, "pageCount", None)
      authors == Get(volume_info, "authors", <<>>)
  IN  IF pages # None /\ DOMAIN pages # {"int"} THEN Raised("TypeError")
      ELSE [title |-> Get(volume_info, "title", "Unknown Title"),
            author |-> IF authors # <<>> THEN PyStr(authors[1]) ELSE None,
            reading_time |-> IF pages = None THEN "Unknown" ELSE "timed"]

create_manual_fallback(fallback) ==
  [title |-> fallback.title, author |-> PyStr(fallback.author),
   reading_time |-> "Unknown"]

\* _search_books after the response: a recommendation, or None when there is
\* nothing to recommend or anything raised
searched(response) ==
  IF IsRaised(items_of(response)) THEN None
  ELSE IF items_of(response).list = <<>> THEN None
  ELSE IF best_book(items_of(response).list) = None THEN None
  ELSE IF IsRaised(create_recommendation(best_book(items_of(response).list))) THEN None
  ELSE create_recommendation(best_book(items_of(response).list))

\* FALLBACK_BOOKS.get(primary_mood, FALLBACK_BOOKS.get("happy"))
fallback_for(mood_analysis) ==
  Get(FALLBACK_BOOKS, mood_analysis.primary_mood, Get(FALLBACK_BOOKS, "happy", None))

\* the curated book whatever the API answered
manual_only(response, fallback) == create_manual_fallback(fallback)

\* _get_fallback_book after the response: the API's first item, else the
\* manually built recommendation
fallback_book(response, fallback) ==
  IF IsRaised(items_of(response)) THEN create_manual_fallback(fallback)
  ELSE IF items_of(response).list = <<>> THEN create_manual_fallback(fallback)
  ELSE IF IsRaised(create_recommendation(items_of(response).list[1]))
    THEN create_manual_fallback(fallback)
  ELSE create_recommendation(items_of(response).list[1])

\* the request of a stage is sent and the call waits for the answer
requested(stage, query) ==
  /\ pc' = stage
  /\ frame' = [frame EXCEPT !.requests = Append(@, [stage |-> stage, q |-> query])]
  /\ result' = result

\* a stage's search found a book: it is returned; else the next stage starts
found_or_next(recommendation, response, stage, query) ==
  IF recommendation # None
    THEN /\ result' = recommendation
         /\ pc' = "returned"
         /\ frame' = [frame EXCEPT !.responses = Append(@, response)]
    ELSE /\ result' = result
         /\ pc' = stage
         /\ frame' = [frame EXCEPT !.responses = Append(@, response),
                                   !.requests = Append(@, [stage |-> stage, q |-> query])]

\* lines 150-151 and 183-208: the specific query is sent
get_recommendation ==
  /\ pc = "called" /\ call.fn = "get_recommendation"
  /\ requested("specific", build_search_query(call.arg, FALSE))
  /\ UNCHANGED <<MOOD_MAPPINGS, MOOD_SIMILARITIES, MOOD_OPPOSITES, call, alias, mutations>>
  /\ UNCHANGED agentvars

\* lines 209-236 and 153-158: the specific search answers
specific_search_returns ==
  /\ pc = "specific"
  /\ \E response \in ApiResponses :
       found_or_next(searched(response), response, "broader",
                     build_search_query(call.arg, TRUE))
  /\ UNCHANGED <<MOOD_MAPPINGS, MOOD_SIMILARITIES, MOOD_OPPOSITES, call, alias, mutations>>
  /\ UNCHANGED agentvars

\* lines 209-236, 160-165 and 250-275: the broader search answers
broader_search_returns ==
  /\ pc = "broader"
  /\ \E response \in ApiResponses :
       found_or_next(searched(response), response, "curated",
                     <<fallback_for(call.arg).title, fallback_for(call.arg).author>>)
  /\ UNCHANGED <<MOOD_MAPPINGS, MOOD_SIMILARITIES, MOOD_OPPOSITES, call, alias, mutations>>
  /\ UNCHANGED agentvars

\* lines 276-290: the search for the curated book answers
fallback_search_returns ==
  /\ pc = "curated"
  /\ \E response \in ApiResponses :
       /\ result' = fallback_book(response, fallback_for(call.arg))
       /\ frame' = [frame EXCEPT !.responses = Append(@, response)]
  /\ pc' = "returned"
  /\ UNCHANGED <<MOOD_MAPPINGS, MOOD_SIMILARITIES, MOOD_OPPOSITES, call, alias, mutations>>
  /\ UNCHANGED agentvars

BookCalls == {[fn |-> "get_recommendation", arg |-> mood_analysis] :
                mood_analysis \in BookMoods}

InitBooks ==
  /\ LibInit
  /\ AgentInit
  /\ call \in BookCalls
  /\ pc = "called"
  /\ frame = [requests |-> <<>>, responses |-> <<>>]

NextBooks ==
  \/ get_recommendation
  \/ specific_search_returns
  \/ broader_search_returns
  \/ fallback_search_returns

SpecBooks == InitBooks /\ [][NextBooks]_vars

-----------------------------------------------------------------------------
\* The A2A endpoint: a2a_endpoint of main.py

PARSE_ERROR == -32700
INVALID_REQUEST == -32600
METHOD_NOT_FOUND == -32601
INVALID_PARAMS == -32602
INTERNAL_ERROR == -32603

PyDict(d) == [dict |-> d]
IsDict(v) == DOMAIN v = {"dict"}

\* the values of the members of a request object; a member may also be absent
Absent == [absent |-> TRUE]
JsonRpcVersions == {Absent, PyStr("2.0"), PyStr("1.0")}
RequestIds == {Absent, None, PyInt(7), PyStr("req-1")}
Methods == {Absent, PyStr("message/send"), PyStr("execute"), PyStr("tasks/get")}
Params ==
  { Absent,
    PyStr("oops"),
    PyDict([messages |-> <<>>]),
    PyDict([messages |-> <<A2AMessage("user", "i feel sad")>>, contextId |-> "ctx-a",
            taskId |-> "task-a"]) }

\* the JSON object with the members that are not absent
object(jsonrpc, id, method, params) ==
  LET members == [jsonrpc |-> jsonrpc, id |-> id, method |-> method, params |-> params]
  IN  PyDict([k \in {m \in DOMAIN members : members[m] # Absent} |-> members[k]])

\* what request.json() gives: it raises on a body that is not JSON
Bodies ==
  {Raised("JSONDecodeError"), PyList(<<1, 2>>), PyStr("hello"), None}
    \cup {object(jsonrpc, id, method, params) :
            jsonrpc \in JsonRpcVersions, id \in RequestIds,
            method \in Methods, params \in Params}

\* what agent.process_messages returns to the handler
TaskResults ==
  { TaskResult("task-a", "ctx-a", "completed", <<"mood_analysis", "book_recommendation">>,
               <<A2AMessage("user", "i feel sad")>>),
    create_error_result("ctx-a", "task-a", "Failed to analyze mood", "message-uuid-1") }

JSONResponse(content, status_code) == [content |-> content, status_code |-> status_code]

\* id: str | int = Field(...)
valid_id(id) == DOMAIN id = {"int"} \/ DOMAIN id = {"str"}

status_map ==
  [code \in {PARSE_ERROR, INVALID_REQUEST, METHOD_NOT_FOUND, INVALID_PARAMS,
             INTERNAL_ERROR} |->
     IF code = METHOD_NOT_FOUND THEN 404
     ELSE IF code = INTERNAL_ERROR THEN 500 ELSE 400]

\* _create_error_response: JSONRPCResponse(jsonrpc="2.0", id=id, error=error)
\* validates id, then the content is dumped with exclude_none
create_error_response(id, code, message) ==
  IF ~valid_id(id) THEN Raised("ValidationError")
  ELSE JSONResponse([jsonrpc |-> "2.0", id |-> id,
                     error |-> [code |-> code, message |-> message]],
                    Get(status_map, code, 500))

\* JSONRPCRequest(**body): jsonrpc, id, method and params validate
valid_request(body) ==
  /\ Get(body, "jsonrpc", PyStr("2.0")) = PyStr("2.0")
  /\ "id" \in DOMAIN body => valid_id(body.id)
  /\ "method" \in DOMAIN body
  /\ body.method \in {PyStr("message/send"), PyStr("execute")}
  /\ "params" \in DOMAIN body
  /\ IsDict(body.params)

Await(id, params) == [await |-> "process_messages", id |-> id, params |-> params]
IsAwait(v) == "await" \in DOMAIN v

\* _handle_message_send and _handle_execute up to agent.process_messages
handle(body) ==
  IF body.params.dict.messages = <<>> THEN Raised("ValueError")
  ELSE Await(body.id, body.params.dict)

\* lines 171-231: the try block, for a body that is a JSON object
dispatched(body) ==
  IF Get(body, "jsonrpc", None) # PyStr("2.0")
    THEN create_error_response(Get(body, "id", None), INVALID_REQUEST,
                               "Invalid JSON-RPC version, must be '2.0'")
  ELSE IF "id" \notin DOMAIN body
    THEN create_error_response(None, INVALID_REQUEST, "Missing required field 'id'")
  ELSE IF ~valid_request(body)
    THEN create_error_response(Get(body, "id", None), INVALID_REQUEST,
                               "Invalid request format")
  ELSE IF body.method = PyStr("message/send") THEN handle(body)
  ELSE IF body.method = PyStr("execute") THEN handle(body)
  ELSE create_error_response(body.id, METHOD_NOT_FOUND, "Method not found")

\* lines 171-231: the try block
tried(body) ==
  IF IsRaised(body) THEN create_error_response(None, PARSE_ERROR, "Invalid JSON")
  ELSE IF ~IsDict(body)
    THEN create_error_response(None, INVALID_REQUEST, "Request must be a JSON object")
  ELSE dispatched(body.dict)

\* lines 247-253: except Exception, with id = body.get("id") if "body" in locals()
\* else None
excepted(body) ==
  IF IsRaised(body) THEN create_error_response(None, INTERNAL_ERROR, "Internal server error")
  ELSE IF ~IsDict(body) THEN Raised("AttributeError")
  ELSE create_error_response(Get(body.dict, "id", None), INTERNAL_ERROR,
                             "Internal server error")

\* the handler up to its return, its raise or its await of process_messages
handled(agent_ready, body, outcome) ==
  IF ~agent_ready
    THEN create_error_response(None, INTERNAL_ERROR, "Agent not initialized")
  ELSE IF IsRaised(outcome) THEN excepted(body)
  ELSE outcome

a2a_endpoint ==
  /\ pc = "called" /\ call.fn = "a2a_endpoint"
  /\ result' = handled(call.arg.agent, call.arg.body, tried(call.arg.body))
  /\ pc' = IF IsAwait(result') THEN "process_messages" ELSE "returned"
  /\ frame' = frame
  /\ UNCHANGED <<MOOD_MAPPINGS, MOOD_SIMILARITIES, MOOD_OPPOSITES, call, alias, mutations>>
  /\ UNCHANGED agentvars

\* lines 233-245: JSONRPCResponse(jsonrpc="2.0", id=rpc_request.id, result=...)
process_messages_returns ==
  /\ pc = "process_messages"
  /\ \E task_result \in TaskResults :
       result' = JSONResponse([jsonrpc |-> "2.0", id |-> result.id,
                               result |-> task_result], 200)
  /\ pc' = "returned"
  /\ frame' = frame
  /\ UNCHANGED <<MOOD_MAPPINGS, MOOD_SIMILARITIES, MOOD_OPPOSITES, call, alias, mutations>>
  /\ UNCHANGED agentvars

EndpointCalls ==
  {[fn |-> "a2a_endpoint", arg |-> [agent |-> agent_ready, body |-> body]] :
     agent_ready \in BOOLEAN, body \in Bodies}

InitEndpoint ==
  /\ LibInit
  /\ AgentInit
  /\ call \in EndpointCalls
  /\ pc = "called"
  /\ frame = EmptyDict

NextEndpoint ==
  \/ a2a_endpoint
  \/ process_messages_returns

SpecEndpoint == InitEndpoint /\ [][NextEndpoint]_vars

\* ------------------------------------------------------------------------
\* Properties of merge_mood_mappings and the lookups
\* ------------------------------------------------------------------------
MergeOf2Plus == Returned("merge_mood_mappings") /\ Len(call.arg) >= 2

\* the mappings merge_mood_mappings collected for the call's labels
resolved == valid_mappings(chars_of(call.arg))

resolves(label) == matched_mood(CHARS[label]) # NO_MATCH

\* the labels of the call that resolve, in input order
resolvable_labels == SelectSeq(call.arg, resolves)

ordinals(mappings) == [i \in 1..Len(mappings) |-> energy_map[mappings[i].music_energy]]

\* 0.6 * primary + 0.4 * (mean of the secondaries), rounded to the nearest
\* integer with a tie going up
weighted_energy(mappings) ==
  LET n == Len(mappings)
      e == ordinals(mappings)
  IN round_half_up(6 * (n - 1) * e[1] + 4 * (Sum(e) - e[1]), 10 * (n - 1))

\* C1: in a merge of 2+ resolved moods the music energy is the level of the
\* rounded 0.6/0.4-weighted mean of the moods' energy ordinals, and
\* merge(["sad","excited"]) has energy "medium".
C1_WeightedMeanEnergy ==
  (MergeOf2Plus /\ Len(resolved) >= 2) =>
     /\ result.music_energy = reverse_energy_map[weighted_energy(resolved)]
     /\ call.arg = <<"sad", "excited">> => result.music_energy = "medium"

\* C2: when the first label of a merge of 2+ labels resolves, the movie
\* tone, book pacing, book depth and strategy of the result are those of
\* the first label's profile; merge(["heartbroken","sad","lonely"]) has
\* strategy "process".
C2_PrimaryFieldsKept ==
  (MergeOf2Plus /\ resolves(call.arg[1])) =>
     LET first == MOOD_MAPPINGS[matched_mood(CHARS[call.arg[1]])]
     IN /\ result.movie_tone = first.movie_tone
        /\ result.book_pacing = first.book_pacing
        /\ result.book_depth = first.book_depth
        /\ result.recommendation_strategy = first.recommendation_strategy
        /\ call.arg = <<"heartbroken", "sad", "lonely">>
             => result.recommendation_strategy = "process"

C2_Witness ==
  /\ MergeOf2Plus /\ resolves(call.arg[1])
  /\ Len(resolved) = 3
  /\ resolved[2].recommendation_strategy # resolved[1].recommendation_strategy
  /\ resolved[3].movie_tone # resolved[1].movie_tone
  /\ result.recommendation_strategy = resolved[1].recommendation_strategy

index_of(lst, x) == CHOOSE i \in 1..Len(lst) : lst[i] = x

MergeOfTwoKeys ==
  /\ Returned("merge_mood_mappings") /\ Len(call.arg) = 2
  /\ call.arg[1] \in DOMAIN MOOD_MAPPINGS /\ call.arg[2] \in DOMAIN MOOD_MAPPINGS

only_in(p, s) == Items(MOOD_MAPPINGS[p].music_genres) \ Items(MOOD_MAPPINGS[s].music_genres)

\* C3: in merge([p, s]) of two taxonomy keys every music genre only p has
\* is in the merged list, and before every genre of the list that only s has.
C3_PrimaryItemsFirst ==
  MergeOfTwoKeys =>
    \A x \in only_in(call.arg[1], call.arg[2]) :
       /\ x \in Items(result.music_genres)
       /\ \A y \in only_in(call.arg[2], call.arg[1]) \cap Items(result.music_genres) :
             index_of(result.music_genres, x) < index_of(result.music_genres, y)

C3_Witness ==
  /\ MergeOfTwoKeys
  /\ call.arg = <<"happy", "energetic">>
  /\ only_in("happy", "energetic") # {}
  /\ only_in("energetic", "happy") \cap Items(result.music_genres) # {}

\* C4: merge([]) returns the non-empty profile of the baseline mood "calm".
C4_EmptyMergeIsCalm ==
  (Returned("merge_mood_mappings") /\ call.arg = <<>>) =>
     /\ result # EmptyDict
     /\ "calm" \in DOMAIN MOOD_MAPPINGS
     /\ result = MOOD_MAPPINGS["calm"]

\* the category whose list names the key
declared_category(key) ==
  LET c == CHOOSE c \in 1..Len(categories) : key \in Items(categories[c].mood_list)
  IN categories[c].category

\* C5: when get_mood_mapping(label) finds a mood, get_mood_category(label)
\* is that mood's declared category and never "unknown".
C5_CategoryFollowsResolve ==
  (Returned("get_mood_category") /\ resolves(call.arg)) =>
     /\ result # "unknown"
     /\ result = declared_category(matched_mood(CHARS[call.arg]))

NothingResolves == \A i \in 1..Len(call.arg) : ~resolves(call.arg[i])

\* C6: whatever the caller calls and however it mutates the values it got
\* back, the three taxonomy tables stay as the module defined them.
C6_TablesUnchanged ==
  /\ MOOD_MAPPINGS = MOOD_MAPPINGS_SRC
  /\ MOOD_SIMILARITIES = MOOD_SIMILARITIES_SRC
  /\ MOOD_OPPOSITES = MOOD_OPPOSITES_SRC

Media == {"music", "movie", "book"}

\* the calls whose mood analysis succeeded
Analyzed == {c \in CallIds : tasks[c].pc \in {"gather", "done"} /\ "outcome" \in DOMAIN tasks[c]}

\* the media whose service returned a recommendation to call c
found(c) == {m \in Media : tasks[c].outcome[m] = Recommendation(m)}

reported(c) ==
  <<"mood_analysis">>
    \o (IF "music" \in found(c) THEN <<"music_recommendation">> ELSE <<>>)
    \o (IF "movie" \in found(c) THEN <<"movie_recommendation">> ELSE <<>>)
    \o (IF "book" \in found(c) THEN <<"book_recommendation">> ELSE <<>>)

\* C7: once mood analysis has succeeded the three searches are pending
\* together; a search that fails or raises leaves null for its own medium
\* and every search that found something keeps its result; the task ends
\* "completed" exactly when some search found something, reporting every
\* found medium, and "failed" exactly when all three results are null.
C7_FailuresIsolated ==
  \A c \in Analyzed :
    /\ \A m \in Media :
         \/ tasks[c].outcome[m] = Pending /\ tasks[c][m] = Pending
         \/ tasks[c].outcome[m] = Recommendation(m) /\ tasks[c][m] = Recommendation(m)
         \/ tasks[c].outcome[m] \in {None, Raised("Exception")} /\ tasks[c][m] = None
    /\ tasks[c].pc = "done" =>
         /\ \A m \in Media : tasks[c].outcome[m] # Pending
         /\ found(c) # {} =>
              /\ tasks[c].result.status.state = "completed"
              /\ tasks[c].result.artifacts = reported(c)
         /\ found(c) = {} => tasks[c].result.status.state = "failed"

C7_Witness ==
  \E c \in Analyzed :
    /\ tasks[c].pc = "done"
    /\ tasks[c].outcome.music = Raised("Exception")
    /\ tasks[c].outcome.movie = Recommendation("movie")
    /\ tasks[c].outcome.book = None
    /\ tasks[c].result.status.state = "completed"
    /\ tasks[c].result.artifacts = <<"mood_analysis", "movie_recommendation">>

\* C8: a merge of one label that does not resolve, or of 2+ labels none of
\* which resolves, returns a profile whose genre, theme and keyword lists
\* are present and empty.
C8_UnresolvedGivesEmptyLists ==
  (Returned("merge_mood_mappings") /\ Len(call.arg) >= 1 /\ NothingResolves) =>
     /\ ~IsRaised(result)
     /\ \A f \in LIST_FIELDS \ {"music_vibe", "avoid_themes"} :
           f \in DOMAIN result /\ result[f] = <<>>

EnergyTie ==
  /\ MergeOf2Plus /\ Len(resolved) >= 2
  /\ 2 * (Sum(ordinals(resolved)) % Len(resolved)) = Len(resolved)

level_below_mean == Sum(ordinals(resolved)) \div Len(resolved)

C11_NoOrphanedSimilar ==
  \A k \in DOMAIN MOOD_SIMILARITIES :
    \A i \in 1..Len(MOOD_SIMILARITIES[k]) :
      MOOD_SIMILARITIES[k][i] \in DOMAIN MOOD_MAPPINGS

\* the declared values of the enum-valued profile fields
DeclaredEnums ==
  [music_energy |-> {"very_low", "low", "medium", "high", "very_high"},
   movie_tone |-> {"light", "serious", "balanced", "dark", "uplifting", "intense"},
   book_pacing |-> {"very_slow", "slow", "moderate", "fast", "contemplative"},
   book_depth |-> {"light", "medium", "deep", "profound"},
   recommendation_strategy |-> {"match", "uplift", "process", "escape", "channel"}]

\* C17: every profile of the taxonomy has its enum-valued fields inside
\* the declared sets.
C17_EnumFieldsDeclared ==
  \A k \in DOMAIN MOOD_MAPPINGS :
    \A f \in DOMAIN DeclaredEnums : MOOD_MAPPINGS[k][f] \in DeclaredEnums[f]

\* the label as the lookups compare it: lowercased and stripped
normalized(label) == strip(lower(CHARS[label]))

\* the keys whose similarity to the word reaches the cutoff
close_keys(keys, word, cutoff10) == {k \in keys : ratio_ge(k, word, cutoff10)}

\* similarity(x, word) >= similarity(y, word)
similarity_ge(x, y, word) ==
  matches(x, word) * (Len(CHARS[y]) + Len(word))
    >= matches(y, word) * (Len(CHARS[x]) + Len(word))

\* the keys of close that no other key of close beats
best_keys(close, word) == {k \in close : \A y \in close : similarity_ge(k, y, word)}

spelled_by(keys, word) == {k \in keys : CHARS[k] = word}

\* the keys a lookup may use: the key the word spells, else the best close keys
lookup_choices(keys, word, cutoff10) ==
  IF spelled_by(keys, word) # {} THEN spelled_by(keys, word)
  ELSE best_keys(close_keys(keys, word, cutoff10), word)

\* C12: get_mood_mapping(label) is the profile of the key equal to the
\* normalized label if there is one, otherwise the profile of a key of
\* greatest similarity among those at 0.6 or more, otherwise None; "hapy"
\* gives the profile of "happy" and "xyzabc" gives None.
C12_ResolveExactElseBest ==
  Returned("get_mood_mapping") =>
    /\ IF lookup_choices(DOMAIN MOOD_MAPPINGS, normalized(call.arg), 6) = {}
         THEN result = None
         ELSE \E k \in lookup_choices(DOMAIN MOOD_MAPPINGS, normalized(call.arg), 6) :
                result = MOOD_MAPPINGS[k]
    /\ Cardinality(lookup_choices(DOMAIN MOOD_MAPPINGS, normalized(call.arg), 6)) <= 1
    /\ (call.arg = "hapy" => result = MOOD_MAPPINGS["happy"])
    /\ (call.arg = "xyzabc" => result = None)

C12_Witness ==
  /\ Returned("get_mood_mapping")
  /\ call.arg = "hapy"
  /\ spelled_by(DOMAIN MOOD_MAPPINGS, normalized(call.arg)) = {}
  /\ result = MOOD_MAPPINGS["happy"]

\* C13: for every key k of the taxonomy, merge_mood_mappings([k]) equals
\* get_mood_mapping(k), the profile of k, field for field.
C13_SingleMergeIsResolve ==
  (Returned("merge_mood_mappings") /\ call.arg[1] \in DOMAIN MOOD_MAPPINGS) =>
     /\ result = get_mood_mapping(CHARS[call.arg[1]])
     /\ DOMAIN result = DOMAIN MOOD_MAPPINGS[call.arg[1]]
     /\ \A f \in DOMAIN result : result[f] = MOOD_MAPPINGS[call.arg[1]][f]

C13_Witness ==
  /\ Returned("merge_mood_mappings")
  /\ call.arg = <<"drowsy">>
  /\ result = MOOD_MAPPINGS["drowsy"]
  /\ result.book_pacing = "very slow"

\* the bounds of the list fields of a merged profile
ListBounds ==
  [music_genres |-> 8, music_vibe |-> 5, music_keywords |-> 6, movie_genres |-> 4,
   movie_themes |-> 6, movie_keywords |-> 5, book_genres |-> 4, book_themes |-> 6,
   book_keywords |-> 5, avoid_themes |-> 5]

no_duplicates(lst) == \A i, j \in 1..Len(lst) : lst[i] = lst[j] => i = j

within_bounds(profile) ==
  \A f \in DOMAIN ListBounds \cap DOMAIN profile :
    no_duplicates(profile[f]) /\ Len(profile[f]) <= ListBounds[f]

\* C14: for every list of labels, every list field of the profile
\* merge_mood_mappings returns is free of duplicates and within its bound;
\* the profiles of the taxonomy, which a merge of one label returns as they
\* are, are so too.
C14_MergedListsBounded ==
  /\ Returned("merge_mood_mappings") => within_bounds(result)
  /\ \A k \in DOMAIN MOOD_MAPPINGS : within_bounds(MOOD_MAPPINGS[k])

\* a merge whose moods together offer more movie genres than the bound keeps
C14_Witness ==
  /\ MergeOf2Plus
  /\ Len(resolved) >= 2
  /\ Cardinality(UNION {Items(resolved[i].movie_genres) : i \in 1..Len(resolved)}) > 4
  /\ Len(result.movie_genres) = 4
  /\ no_duplicates(result.movie_genres)

\* the places of the category lists that name the mood
listings(mood) ==
  {<<c, i>> \in (1..Len(categories)) \X (1..12) :
     i <= Len(categories[c].mood_list) /\ categories[c].mood_list[i] = mood}

\* C15: every key of the taxonomy is named exactly once across the category
\* lists, every mood a category list names is a key of the taxonomy, and
\* get_mood_category of a key is the category naming it, never "unknown".
C15_CategoriesPartitionKeys ==
  /\ \A k \in DOMAIN MOOD_MAPPINGS : Cardinality(listings(k)) = 1
  /\ \A c \in 1..Len(categories) :
       /\ Len(categories[c].mood_list) <= 12
       /\ \A i \in 1..Len(categories[c].mood_list) :
            categories[c].mood_list[i] \in DOMAIN MOOD_MAPPINGS
  /\ (Returned("get_mood_category") /\ call.arg \in DOMAIN MOOD_MAPPINGS) =>
       /\ result # "unknown"
       /\ \E p \in listings(call.arg) : result = categories[p[1]].category

C15_Witness ==
  /\ Returned("get_mood_category")
  /\ call.arg = "bored"
  /\ result = "complex"
  /\ listings("bored") = {<<6, 6>>}

upper_char(c) ==
  IF \E i \in 1..26 : LOWERCASE[i] = c
    THEN UPPERCASE[CHOOSE i \in 1..26 : LOWERCASE[i] = c]
    ELSE c

\* s spells the key k in some case, with whitespace before and after
is_variant(s, k) ==
  \E lead \in 0..Len(s) :
    /\ lead + Len(k) <= Len(s)
    /\ \A i \in 1..lead : s[i] \in WHITESPACE
    /\ \A i \in 1..Len(k) : s[lead + i] \in {k[i], upper_char(k[i])}
    /\ \A i \in (lead + Len(k) + 1)..Len(s) : s[i] \in WHITESPACE

\* C18: for every key k of the taxonomy and every spelling of k in another
\* case and with leading or trailing whitespace, get_mood_mapping of the
\* spelling equals get_mood_mapping(k), the profile of k.
C18_ResolveIgnoresCaseAndSpace ==
  \A k \in DOMAIN MOOD_MAPPINGS :
    (Returned("get_mood_mapping") /\ is_variant(CHARS[call.arg], CHARS[k])) =>
       /\ result = get_mood_mapping(CHARS[k])
       /\ result = MOOD_MAPPINGS[k]

C18_Witness ==
  /\ Returned("get_mood_mapping")
  /\ call.arg = "\tBURNT_OUT\n"
  /\ is_variant(CHARS[call.arg], CHARS["burnt_out"])
  /\ result = MOOD_MAPPINGS["burnt_out"]

\* nothing matches the label: no key spells it or is close to it
no_match(keys, label, cutoff10) == lookup_choices(keys, normalized(label), cutoff10) = {}

\* C16: get_mood_mapping, get_mood_category, find_similar_moods,
\* get_opposite_mood and merge_mood_mappings return for every string (or
\* list of strings), the empty string included, and never raise; when
\* nothing matches they return None, "unknown", the empty list, None and an
\* empty or default profile respectively.
C16_NeverRaises ==
  pc = "returned" =>
    /\ (call.fn = "get_mood_mapping") =>
         /\ ~IsRaised(result)
         /\ (no_match(DOMAIN MOOD_MAPPINGS, call.arg, 6) => result = None)
    /\ (call.fn = "get_mood_category") =>
         /\ result \in {categories[c].category : c \in 1..Len(categories)} \cup {"unknown"}
         /\ (no_match(DOMAIN MOOD_MAPPINGS, call.arg, 6) => result = "unknown")
    /\ (call.fn = "find_similar_moods") =>
         (no_match(DOMAIN MOOD_SIMILARITIES, call.arg, 7) => result = <<>>)
    /\ (call.fn = "get_opposite_mood") =>
         /\ ~IsRaised(result)
         /\ (no_match(DOMAIN MOOD_OPPOSITES, call.arg, 8) => result = None)
    /\ (call.fn = "merge_mood_mappings") =>
         /\ ~IsRaised(result)
         /\ ((call.arg # <<>> /\ NothingResolves) => result = EmptyDict)
         /\ (call.arg = <<>> =>
              \/ result = EmptyDict
              \/ \E k \in DOMAIN MOOD_MAPPINGS : result = MOOD_MAPPINGS[k])

\* the empty string matches nothing, in any of the lookups
C16_Witness ==
  /\ Returned("get_mood_category")
  /\ call.arg = ""
  /\ no_match(DOMAIN MOOD_MAPPINGS, call.arg, 6)
  /\ result = "unknown"

\* C19: get_opposite_mood(label) is the entry of MOOD_OPPOSITES for the
\* normalized label or, when the label is not a key of it, for the key of
\* greatest similarity among those at 0.8 or more, and None when there is
\* no such key; "sad" gives "happy" and "unknown_mood_zzz" gives None.
C19_OppositeExactElseBest ==
  Returned("get_opposite_mood") =>
    /\ IF no_match(DOMAIN MOOD_OPPOSITES, call.arg, 8)
         THEN result = None
         ELSE \E k \in lookup_choices(DOMAIN MOOD_OPPOSITES, normalized(call.arg), 8) :
                result = PyStr(MOOD_OPPOSITES[k])
    /\ Cardinality(lookup_choices(DOMAIN MOOD_OPPOSITES, normalized(call.arg), 8)) <= 1
    /\ (call.arg = "sad" => result = PyStr("happy"))
    /\ (call.arg = "unknown_mood_zzz" => result = None)

\* a misspelt label takes the opposite of its close match
C19_Witness ==
  /\ Returned("get_opposite_mood")
  /\ call.arg = "stresed"
  /\ spelled_by(DOMAIN MOOD_OPPOSITES, normalized(call.arg)) = {}
  /\ result = PyStr("relaxed")

Constructed == Returned("MoodAnalysis") /\ ~IsRaised(result)

\* the valid moods the primary mood of the call may become
primary_choices ==
  LET word == normalize_mood(CHARS[call.arg.primary_mood])
      choices == lookup_choices(VALID_MOODS, word, 6)
  IN IF choices = {} THEN {"overwhelmed"} ELSE choices

\* C20: every MoodAnalysis that is constructed has a primary_mood among the
\* 52 valid moods: the input lowercased, stripped and with spaces turned
\* into underscores if that is a valid mood, else the closest valid mood at
\* cutoff 0.6, else "overwhelmed"; the secondary moods are the inputs
\* lowercased, stripped and with spaces turned into underscores, valid or not.
C20_PrimaryMoodValid ==
  Constructed =>
    /\ result.primary_mood \in VALID_MOODS
    /\ Cardinality(VALID_MOODS) = 52
    /\ result.primary_mood \in primary_choices
    /\ Len(result.secondary_moods) = Len(call.arg.secondary_moods)
    /\ \A i \in 1..Len(result.secondary_moods) :
         result.secondary_moods[i] = normalize_mood(CHARS[call.arg.secondary_moods[i]])

\* an input that is no valid mood and close to none, next to a secondary
\* mood that is only normalized
C20_Witness ==
  /\ Constructed
  /\ call.arg.primary_mood = "xyzabc"
  /\ result.primary_mood = "overwhelmed"
  /\ call.arg.secondary_moods = <<"burnt out", "Anxious">>
  /\ result.secondary_moods = <<CHARS["burnt_out"], CHARS["anxious"]>>

\* ------------------------------------------------------------------------
\* Further properties of merge_mood_mappings
\* ------------------------------------------------------------------------
RECURSIVE concatenated(_, _)
\* the lists of the field of the mappings, one after the other
concatenated(mappings, field) ==
  IF mappings = <<>> THEN <<>>
  ELSE Head(mappings)[field] \o concatenated(Tail(mappings), field)

RECURSIVE first_occurrences(_)
\* the items of the list in the order they first occur
first_occurrences(lst) ==
  IF lst = <<>> THEN <<>>
  ELSE LET front == first_occurrences(SubSeq(lst, 1, Len(lst) - 1))
       IN IF lst[Len(lst)] \in Items(front) THEN front ELSE Append(front, lst[Len(lst)])

\* C24: in a merge in which 2 or more moods resolve, each list field is the
\* lists of the resolved moods, concatenated in label order and reduced to
\* first occurrences, cut to the field's bound; every mood is pooled at
\* least once (6 times the primary, max(1, 4 div (n-1)) times each other),
\* and the counts leave no trace in the result.
C24_MergeIsOrderedUnion ==
  (MergeOf2Plus /\ Len(resolved) >= 2) =>
     /\ \A f \in LIST_FIELDS :
          result[f] = Take(first_occurrences(concatenated(resolved, f)), ListBounds[f])
     /\ \A i \in 1..Len(resolved) :
          /\ repetitions(i - 1, Len(resolved)) >= 1
          /\ repetitions(i - 1, Len(resolved))
               = IF i = 1 THEN 6 ELSE Max(1, 4 \div (Len(resolved) - 1))

\* three resolved moods, the third pooled twice, the second contributing
\* an item the primary does not have
C24_Witness ==
  /\ MergeOf2Plus
  /\ Len(resolved) = 3
  /\ repetitions(2, 3) = 2
  /\ \E i \in 1..Len(result.book_themes) :
       /\ result.book_themes[i] \notin Items(resolved[1].book_themes)
       /\ result.book_themes[i] \in Items(resolved[2].book_themes)

\* the first label of the call that resolves
first_resolving == resolvable_labels[1]

is_prefix(p, lst) == Len(p) <= Len(lst) /\ SubSeq(lst, 1, Len(p)) = p

\* C25: in a merge of 2 or more labels whose first label does not resolve,
\* the first label that resolves is the primary: tone, pacing, depth and
\* strategy are its own and its items come first in every merged list.
C25_FirstResolvingIsPrimary ==
  (MergeOf2Plus /\ ~resolves(call.arg[1]) /\ resolvable_labels # <<>>) =>
     LET primary == get_mood_mapping(CHARS[first_resolving])
     IN /\ result.movie_tone = primary.movie_tone
        /\ result.book_pacing = primary.book_pacing
        /\ result.book_depth = primary.book_depth
        /\ result.recommendation_strategy = primary.recommendation_strategy
        /\ \A f \in LIST_FIELDS : is_prefix(Take(primary[f], ListBounds[f]), result[f])

C25_Witness ==
  /\ MergeOf2Plus
  /\ call.arg = <<"totally_unrecognized_xyz", "excited", "sad">>
  /\ result.movie_tone = MOOD_MAPPINGS["excited"].movie_tone
  /\ result.movie_tone # MOOD_MAPPINGS["sad"].movie_tone
  /\ result.music_genres[1] = MOOD_MAPPINGS["excited"].music_genres[1]

\* the calls that returned a task in the given state
Ended(state) ==
  {c \in DOMAIN tasks : tasks[c].pc = "done" /\ tasks[c].result.status.state = state}

ArtifactNames ==
  [music |-> "music_recommendation", movie |-> "movie_recommendation",
   book |-> "book_recommendation"]

\* C27: a "completed" result lists the mood_analysis artifact first, then
\* one artifact for each non-null recommendation in the order music, movie,
\* book and none for a null one: 1 + (number of non-null recommendations)
\* artifacts, between 2 and 4.
C27_ArtifactsInOrder ==
  \A c \in Ended("completed") :
    LET artifacts == tasks[c].result.artifacts
        present == SelectSeq(<<"music", "movie", "book">>,
                             LAMBDA m : tasks[c][m] # None)
    IN  /\ Len(artifacts) = 1 + Cardinality({m \in Media : tasks[c][m] # None})
        /\ Len(artifacts) \in 2..4
        /\ artifacts[1] = "mood_analysis"
        /\ \A i \in 1..Len(present) : artifacts[i + 1] = ArtifactNames[present[i]]

C27_Witness ==
  \E c \in Ended("completed") :
    /\ tasks[c].music = Recommendation("music")
    /\ tasks[c].movie = None
    /\ tasks[c].book = Recommendation("book")
    /\ tasks[c].result.artifacts =
         <<"mood_analysis", "music_recommendation", "book_recommendation">>

\* the id the caller passed, else the one generated for it
given_or(id, generated) == IF Truthy(id) THEN id.str ELSE generated

\* a failed result: no artifacts, one agent message, the caller's ids
failed_shape(c) ==
  LET task == tasks[c]
      res == task.result
  IN  /\ ~IsRaised(res)
      /\ res.artifacts = <<>>
      /\ Len(res.history) = 1
      /\ res.history[1].role = "agent"
      /\ res.contextId = given_or(task.caller.context_id, context_uuid4(c))
      /\ res.taskId = given_or(task.caller.task_id, task_uuid4(c))
      /\ res.history[1].contextId = PyStr(res.contextId)
      /\ res.history[1].taskId = PyStr(res.taskId)

own_history(c, history) ==
  LET sent == SelectSeq(tasks[c].messages, LAMBDA msg : msg.role = "user")
  IN  /\ Len(history) = Len(sent) + 1
      /\ SubSeq(history, 1, Len(sent)) = sent
      /\ history[Len(history)].role = "agent"
      /\ history[Len(history)].messageId = message_uuid4(c)
      /\ history = tasks[c].result.history

\* the step with which call c returns a completed task
completes(c) ==
  /\ tasks[c].pc # "done"
  /\ tasks'[c].pc = "done"
  /\ tasks'[c].result.status.state = "completed"

\* C28: the history stored for a context id is the complete history of one
\* successful call made with that id (its user-role input messages in order,
\* then its single agent reply); the step that completes a call replaces
\* what was stored for its id by that call's own history and leaves every
\* other id alone, and no other step changes the store, so what is stored is
\* the history of the call that stored last, never a mix of two calls.
C28_StoredIsLastHistory ==
  /\ [](\A id \in DOMAIN contexts :
          \E c \in Ended("completed") :
            tasks[c].context_id = id /\ own_history(c, contexts[id]))
  /\ [][\A c \in DOMAIN tasks :
          IF completes(c)
            THEN /\ DOMAIN contexts' = DOMAIN contexts \cup {tasks[c].context_id}
                 /\ contexts'[tasks[c].context_id] = tasks'[c].result.history
                 /\ \A id \in DOMAIN contexts \ {tasks[c].context_id} :
                      contexts'[id] = contexts[id]
            ELSE (\A d \in DOMAIN tasks : ~completes(d)) => contexts' = contexts]_vars

\* two calls completed in the same context; the store holds the history of
\* the second to finish, which differs from the first's
C28_Witness ==
  \E c, d \in Ended("completed") :
    /\ c # d
    /\ tasks[c].context_id = "ctx-a" /\ tasks[d].context_id = "ctx-a"
    /\ Len(tasks[c].result.history) = 2 /\ Len(tasks[d].result.history) = 3
    /\ contexts["ctx-a"] = tasks[c].result.history

\* the exceptions the steps after the guard of analyze_mood can end in
failed_run(run) == IsRaised(extracted(run))

\* C21: analyze_mood of an empty or whitespace-only message raises
\* ValueError and hands no prompt to the language-model agent; for any other
\* message the agent is run once with the stripped message, and whatever
\* fails from then on (the agent raising, an answer that is not a
\* MoodAnalysis, unparsable or invalid JSON) is raised as RuntimeError.
C21_EmptyIsValueErrorElseRuntimeError ==
  call.fn = "analyze_mood" =>
    IF CHARS[call.arg] = <<>> \/ \A i \in 1..Len(CHARS[call.arg]) :
                                   CHARS[call.arg][i] \in WHITESPACE
      THEN /\ pc # "agent.run"
           /\ frame.prompts = <<>> /\ frame.runs = <<>>
           /\ (pc = "returned" => result = Raised("ValueError"))
      ELSE /\ (pc # "called" => frame.prompts = <<strip(CHARS[call.arg])>>)
           /\ (pc = "returned" =>
                 /\ Len(frame.runs) = 1
                 /\ (failed_run(frame.runs[1]) => result = Raised("RuntimeError"))
                 /\ (~failed_run(frame.runs[1]) => IsMoodAnalysis(result)))

C21_Witness ==
  /\ call.fn = "analyze_mood" /\ pc = "returned"
  /\ call.arg = " \t\n"
  /\ result = Raised("ValueError")
  /\ frame.prompts = <<>>

\* the entries of a list that are not exceptions, in order
analyses_of(returned) == SelectSeq(returned, LAMBDA r : ~IsRaised(r))

\* C22: batch_analyze_moods takes the messages one at a time in input
\* order; a message whose analysis fails is skipped and the later messages are
\* still processed; the list returned holds exactly the analyses of the
\* messages whose analysis succeeded, in input order, so n messages that all
\* succeed give n results.
C22_BatchKeepsSuccessesInOrder ==
  call.fn = "batch_analyze_moods" =>
    /\ Len(frame.returned) <= Len(call.arg)
    /\ frame.results = analyses_of(frame.returned)
    /\ frame.prompts =
         LET underway == Len(frame.returned) + (IF pc = "agent.run" THEN 1 ELSE 0)
             reached == SubSeq(call.arg, 1, underway)
             asked == SelectSeq(reached, LAMBDA m : strip(CHARS[m]) # <<>>)
         IN  [i \in 1..Len(asked) |-> strip(CHARS[asked[i]])]
    /\ pc = "returned" =>
         /\ Len(frame.returned) = Len(call.arg)
         /\ result = analyses_of(frame.returned)
         /\ (\A i \in 1..Len(call.arg) : ~IsRaised(frame.returned[i]))
              => Len(result) = Len(call.arg)

\* the first message fails and the second is analyzed all the same
C22_Witness ==
  /\ call.fn = "batch_analyze_moods" /\ pc = "returned"
  /\ Len(call.arg) = MaxBatch
  /\ IsRaised(frame.returned[1])
  /\ ~IsRaised(frame.returned[2])
  /\ result = <<frame.returned[2]>>

BookStages == <<"specific", "broader", "curated">>

\* the API answered with at least one item that can be turned into a book
usable_first_item(response) ==
  /\ ~IsRaised(response)
  /\ response.status = 200
  /\ ~IsRaised(response.json)
  /\ Get(response.json, "items", <<>>) # <<>>
  /\ LET volume_info == response.json.items[1].volumeInfo
     IN  "pageCount" \in DOMAIN volume_info => DOMAIN volume_info.pageCount = {"int"}

Answered == call.fn = "a2a_endpoint" /\ call.arg.agent /\ pc = "returned"

\* a JSON-RPC 2.0 error response with the given code and HTTP status
error_response(response, code, status_code) ==
  /\ ~IsRaised(response)
  /\ response.status_code = status_code
  /\ response.content.jsonrpc = "2.0"
  /\ "error" \in DOMAIN response.content
  /\ response.content.error.code = code

\* C29: a request whose body is not valid JSON, is not a JSON object or
\* lacks an id is answered with a JSON-RPC 2.0 error response, code -32700
\* for invalid JSON and -32600 otherwise, with HTTP status 400, and the
\* handler does not raise.
C29_MalformedBodyIsAnswered ==
  Answered =>
    LET body == call.arg.body
    IN  /\ IsRaised(body) => error_response(result, PARSE_ERROR, 400)
        /\ (~IsRaised(body) /\ ~IsDict(body)) => error_response(result, INVALID_REQUEST, 400)
        /\ (IsDict(body) /\ "id" \notin DOMAIN body.dict)
             => error_response(result, INVALID_REQUEST, 400)

\* C30: a JSON-RPC 2.0 request with an id and well-formed params whose
\* method is neither "message/send" nor "execute" is answered with error code
\* -32601 and HTTP status 404, carrying the request's id.
C30_UnknownMethodIsNotFound ==
  Answered =>
    LET body == call.arg.body
    IN  ( /\ IsDict(body)
          /\ DOMAIN body.dict = {"jsonrpc", "id", "method", "params"}
          /\ body.dict.jsonrpc = PyStr("2.0")
          /\ valid_id(body.dict.id)
          /\ IsDict(body.dict.params)
          /\ body.dict.params.dict.messages # <<>>
          /\ body.dict.method \notin {PyStr("message/send"), PyStr("execute")} )
        => /\ error_response(result, METHOD_NOT_FOUND, 404)
           /\ result.content.id = body.dict.id
====
